---------------------------- MODULE Spec2Model ----------------------------
(***************************************************************************)
(* The resource pool, the provenance codec and the strategy combination    *)
(* engine of CPAC/pipeline/engine.py (class ResourcePool), as a state      *)
(* machine over one pool.                                                  *)
(*                                                                         *)
(* Python values are modelled as follows.                                  *)
(*   - a str that is a lineage entry f'{resource}:{node_name}' is the      *)
(*     record Entry(resource, node_name); a list is List(<<items>>);       *)
(*   - str(prov), the lineage key, is the Python text itself, built with   *)
(*     \o by PyStr;                                                        *)
(*   - a dict with str keys is a function on the set of its keys ({} is    *)
(*     <<>>); the dict of lineage keys of one resource, whose iteration    *)
(*     order the code depends on, is a sequence of [idx, data, json]       *)
(*     records in insertion order;                                         *)
(*   - a raised exception is the value of "raised"; it aborts the build,   *)
(*     so no operation follows it.                                         *)
(***************************************************************************)
EXTENDS Integers, Sequences, FiniteSets, TLC

VARIABLES
    rpool,      \* ResourcePool.rpool: resource -> dict of lineage keys
    pipe_list,  \* ResourcePool.pipe_list: registry of lineage keys
    rtable,     \* ResourcePool.rtable: resource_type -> tag -> val -> names
    strats,     \* the dict get_strats returned last (sequence of sub-pools)
    raised,     \* the exception that ended the build, or "none"
    pc,         \* where the build is: "ingress", "idle" or "invoke"
    stage,      \* how many steps of the phase (files, node blocks) are behind
    block,      \* the node block connect_block is connecting
    pos,        \* the (sub-pool, option, output) connect_block is at
    call,       \* the operation on the pool that ran last, with its arguments
    before,     \* rpool as that operation found it
    last_set,   \* the last call of set_data
    again,      \* whether that call repeated the call of set_data before it
    got,        \* what the last call of get returned
    connected,  \* the node block connect_block was called for last
    entry,      \* the pool as that call of connect_block found it
    invoked,    \* the invocations of the body that call has made, in order
    log,        \* the warnings that call has logged
    detached,   \* the (resource, key) whose record that call has deleted
    cfg         \* what the pool took from the configuration when it was made

vars == <<rpool, pipe_list, rtable, strats, raised, pc, stage, block, pos, call, before,
          last_set, again, got, connected, entry, invoked, log, detached, cfg>>

\* what is known of the call of connect_block in progress
conn == <<connected, entry, invoked, log, detached>>

-----------------------------------------------------------------------------
(* Bounds of the model *)

MaxProvLen == 5
MaxKeys == 4
MaxBlocks == 7
MaxSkips == 1

-----------------------------------------------------------------------------
(* The universe of names *)

Resources == {"bold", "desc-preproc_bold", "desc-mean_bold"}

IngressNode == "func_ingress"
ForeignNode == "Non-C-PAC Origin"
BlockNames == {"M"}
Options == <<"x", "y">>

\* f'{node_name}_{opt}'
OptName(name, opt) == name \o "_" \o opt

NodeNames == BlockNames \cup {OptName(n, Options[i]) : n \in BlockNames, i \in DOMAIN Options}

\* Python's None (where a str may stand), and the one-character str that
\* indexing a str yields
None == "<None>"
OneChar == "<char>"

\* the exceptions of get_strats: Exception('... None of the listed resources
\* in the node block being connected exist in the resource pool ...'), and
\* Exception('... the JSON information for ... is incomplete') of get_json
NoneExist == "Exception: None of the listed resources exist"
Incomplete == "Exception: the JSON information is incomplete"

\* the exceptions of get, which carry the same message: Exception(info_msg)
\* for a list of names, LookupError(info_msg) for one name
ListNotInPool == "Exception: None of the listed resources are in the resource pool"
NameNotInPool == "LookupError: None of the listed resources are in the resource pool"

-----------------------------------------------------------------------------
(* dict helpers *)

Has(d, k) == k \in DOMAIN d

Put(d, k, v) == [x \in (DOMAIN d) \cup {k} |-> IF x = k THEN v ELSE d[x]]

Del(d, k) == [x \in (DOMAIN d) \ {k} |-> d[x]]

Range(s) == {s[i] : i \in DOMAIN s}

\* the dict of lineage keys of one resource (a sequence in insertion order)
Idxs(dct) == {dct[i].idx : i \in DOMAIN dct}

IdxSeq(dct) == [i \in DOMAIN dct |-> dct[i].idx]

At(dct, idx) == dct[CHOOSE i \in DOMAIN dct : dct[i].idx = idx]

\* variant: the dict as it is, nothing deleted
KeepIdx(dct, idx) == dct

DelIdx(dct, idx) == SelectSeq(dct, LAMBDA e : e.idx # idx)

\* dct[idx] = rec: an existing key keeps its place, a new one goes last
SetIdx(dct, idx, rec) ==
    IF idx \in Idxs(dct)
    THEN [i \in DOMAIN dct |-> IF dct[i].idx = idx THEN rec ELSE dct[i]]
    ELSE Append(dct, rec)

-----------------------------------------------------------------------------
(* Provenance codec *)

\* variant: the entry f'{node_name}:{resource}'
EntryByNode(resource, node_name) == [k |-> "str", res |-> node_name, node |-> resource]

Entry(resource, node_name) == [k |-> "str", res |-> resource, node |-> node_name]

List(items) == [k |-> "list", items |-> items]

IsList(v) == v.k = "list"

IsStr(v) == v.k = "str"

\* the text of an entry, f'{resource}:{node_name}'
EntryStr(e) == e.res \o ":" \o e.node

RECURSIVE PyRepr(_)
RECURSIVE JoinRepr(_, _)
JoinRepr(items, i) ==
    IF i > Len(items) THEN ""
    ELSE (IF i > 1 THEN ", " ELSE "") \o PyRepr(items[i]) \o JoinRepr(items, i + 1)

\* repr() of an entry or of a list of them; str(list) is repr(list)
PyRepr(v) ==
    IF IsStr(v) THEN "'" \o EntryStr(v) \o "'"
    ELSE "[" \o JoinRepr(v.items, 1) \o "]"

PyStr(v) == IF IsStr(v) THEN EntryStr(v) ELSE PyRepr(v)

\* str() of the tuple (resource, key) generate_prov_string returns
TupleStr(resource, key) == "('" \o resource \o "', \"" \o key \o "\")"

\* prov[-1] of an empty list: there is no entry (IndexError)
NoEntry == [k |-> "none"]

RECURSIVE get_last_prov_entry(_)
get_last_prov_entry(prov) ==
    IF Len(prov.items) = 0 THEN NoEntry
    ELSE LET last == prov.items[Len(prov.items)]
         IN  IF IsStr(last) THEN last ELSE get_last_prov_entry(last)

\* [resource, idx, raised]: IndexError when the chain has no last entry
generate_prov_string(prov) ==
    LET last_entry == get_last_prov_entry(prov)
    IN  IF last_entry = NoEntry
        THEN [resource |-> None, idx |-> None, raised |-> "IndexError"]
        ELSE [resource |-> last_entry.res, idx |-> PyStr(prov), raised |-> "none"]

get_resource_from_prov(prov) ==
    IF IsStr(prov)
    THEN OneChar
    ELSE IF Len(prov.items) = 0 THEN None
         ELSE LET last == prov.items[Len(prov.items)]
              IN  IF IsList(last)
                  THEN LET ll == last.items[Len(last.items)]
                       IN  ll.res
                  ELSE last.res

RECURSIVE flatten_prov(_)
RECURSIVE FlattenItems(_, _)
FlattenItems(items, i) ==
    IF i > Len(items) THEN <<>>
    ELSE (IF IsList(items[i]) THEN flatten_prov(items[i]) ELSE <<items[i]>>)
         \o FlattenItems(items, i + 1)

flatten_prov(prov) ==
    IF IsStr(prov) THEN <<prov>> ELSE FlattenItems(prov.items, 1)

\* prov_str[i], or '' past the end
CharAt(prov_str, i) == IF i <= Len(prov_str) THEN SubSeq(prov_str, i, i) ELSE ""

\* the index of the first ch at or after i, len + 1 when there is none
RECURSIVE Find(_, _, _)
Find(prov_str, ch, i) ==
    IF i > Len(prov_str) \/ SubSeq(prov_str, i, i) = ch THEN i
    ELSE Find(prov_str, ch, i + 1)

\* what ast.literal_eval cannot read (SyntaxError / ValueError)
MalformedNode == [val |-> NoEntry, next |-> 0]

\* a str literal that opens at i: the text up to the closing quote, held as
\* the entry whose resource is text.split(':')[0]
ParseStr(prov_str, i) ==
    LET j == Find(prov_str, "'", i + 1)
        text == SubSeq(prov_str, i + 1, j - 1)
        c == Find(text, ":", 1)
    IN  IF j > Len(prov_str) THEN MalformedNode
        ELSE [val |-> [k |-> "str", res |-> SubSeq(text, 1, c - 1),
                       node |-> SubSeq(text, c + 1, Len(text))],
              next |-> j + 1]

RECURSIVE ParseValue(_, _)
RECURSIVE ParseItems(_, _, _)
\* the elements of a list display from i on, acc the ones already read
ParseItems(prov_str, i, acc) ==
    IF CharAt(prov_str, i) = "]" THEN [val |-> List(acc), next |-> i + 1]
    ELSE IF CharAt(prov_str, i) = "," /\ Len(acc) > 0
         THEN IF CharAt(prov_str, i + 1) = " "
              THEN ParseItems(prov_str, i + 2, acc)
              ELSE ParseItems(prov_str, i + 1, acc)
         ELSE LET v == ParseValue(prov_str, i)
              IN  IF v.val.k = "none" THEN MalformedNode
                  ELSE ParseItems(prov_str, v.next, Append(acc, v.val))

ParseValue(prov_str, i) ==
    IF CharAt(prov_str, i) = "'" THEN ParseStr(prov_str, i)
    ELSE IF CharAt(prov_str, i) = "[" THEN ParseItems(prov_str, i + 1, <<>>)
         ELSE MalformedNode

\* ast.literal_eval(prov_str): the value the text displays, read to its end
literal_eval(prov_str) ==
    LET v == ParseValue(prov_str, 1)
    IN  IF v.next = Len(prov_str) + 1 THEN v.val ELSE NoEntry

\* variant: the entries of the chain in one flat list
generate_flat_list(prov_str) == List(flatten_prov(literal_eval(prov_str)))

generate_prov_list(prov_str) == literal_eval(prov_str)

-----------------------------------------------------------------------------
(* Resource names *)

\* resource.split('_')
SplitUnderscore(resource) ==
    CASE resource = "bold" -> <<"bold">>
      [] resource = "desc-preproc_bold" -> <<"desc-preproc", "bold">>
      [] resource = "desc-mean_bold" -> <<"desc-mean", "bold">>
      [] resource = "reho" -> <<"reho">>
      [] resource = "desc-sm_reho" -> <<"desc-sm", "reho">>
      [] resource = "desc-sm-sm_reho" -> <<"desc-sm-sm", "reho">>
      [] resource = "desc-sm-zstd_reho" -> <<"desc-sm-zstd", "reho">>
      [] resource = "space-template_reho" -> <<"space-template", "reho">>
      [] resource = "space-template_space-template_reho" ->
             <<"space-template", "space-template", "reho">>
      [] resource = "fwhm" -> <<"fwhm">>
      [] resource = "desc-MeanSCA_timeseries" -> <<"desc-MeanSCA", "timeseries">>
      [] resource = "desc-MeanSCA_correlations" -> <<"desc-MeanSCA", "correlations">>
      [] resource = "desc-MeanSCA-zstd_correlations" ->
             <<"desc-MeanSCA-zstd", "correlations">>
      [] resource = "from-bold_to-template_mode-image_xfm" ->
             <<"from-bold", "to-template", "mode-image", "xfm">>
      [] resource = "space-bold_desc-brain_mask" -> <<"space-bold", "desc-brain", "mask">>
      [] resource = "T1w-brain-template-deriv" -> <<"T1w-brain-template-deriv">>

\* tag.split('-')
SplitDash(tag) ==
    CASE tag = "desc-preproc" -> <<"desc", "preproc">>
      [] tag = "desc-mean" -> <<"desc", "mean">>
      [] tag = "desc-sm" -> <<"desc", "sm">>
      [] tag = "desc-sm-sm" -> <<"desc", "sm", "sm">>
      [] tag = "desc-sm-zstd" -> <<"desc", "sm", "zstd">>
      [] tag = "desc-MeanSCA" -> <<"desc", "MeanSCA">>
      [] tag = "desc-MeanSCA-zstd" -> <<"desc", "MeanSCA", "zstd">>
      [] tag = "desc-brain" -> <<"desc", "brain">>
      [] tag = "space-template" -> <<"space", "template">>
      [] tag = "space-bold" -> <<"space", "bold">>
      [] tag = "from-bold" -> <<"from", "bold">>
      [] tag = "to-template" -> <<"to", "template">>
      [] tag = "mode-image" -> <<"mode", "image">>

\* (resource_type, tag_dct), tag_dct as the sequence of its items
parse_bids_tags(resource) ==
    LET tags == SplitUnderscore(resource)
        n == Len(tags)
    IN  [resource_type |-> tags[n],
         tag_dct |-> <<<<"None", "None">>>> \o
                     [i \in 1..(n - 1) |-> <<SplitDash(tags[i])[1], SplitDash(tags[i])[2]>>]]

get_raw_label(resource) ==
    CASE resource = "desc-preproc_bold" -> "bold"
      [] resource = "desc-mean_bold" -> "bold"
      [] resource \in {"desc-sm_reho", "desc-sm-sm_reho", "desc-sm-zstd_reho"} -> "reho"
      [] resource = "desc-MeanSCA_timeseries" -> "timeseries"
      [] resource \in {"desc-MeanSCA_correlations", "desc-MeanSCA-zstd_correlations"} ->
             "correlations"
      [] resource = "space-bold_desc-brain_mask" -> "space-bold_mask"
      [] OTHER -> resource

DataType(resource) == SplitUnderscore(resource)[Len(SplitUnderscore(resource))]

-----------------------------------------------------------------------------
(* ResourcePool.set_data *)

\* a dict of lineage keys holds records {'data': ..., 'json': ...}; a record
\* that set_data created and did not fill yet is the empty dict, which has
\* neither (here: an empty 'data' and an empty 'json')
Rec(idx, data, json) == [idx |-> idx, data |-> data, json |-> json]

EmptyRec(idx) == [idx |-> idx, data |-> <<>>, json |-> <<>>]

\* the loop over tag_dct.items() of set_data: [tbl, raised]
RECURSIVE UpdateTags(_, _, _, _)
UpdateTags(tbl, items, i, resource) ==
    IF i > Len(items) THEN [tbl |-> tbl, raised |-> "none"]
    ELSE LET tag == items[i][1]
             val == items[i][2]
             t1 == IF ~Has(tbl, tag) THEN Put(tbl, tag, Put(<<>>, val, <<>>)) ELSE tbl
         IN  IF ~Has(t1[tag], val)
             THEN [tbl |-> t1, raised |-> "KeyError"]
             ELSE LET t2 == IF resource \notin Range(t1[tag][val])
                            THEN Put(t1, tag, Put(t1[tag], val, Append(t1[tag][val], resource)))
                            ELSE t1
                  IN  UpdateTags(t2, items, i + 1, resource)

\* the key set_data looks for among the entries of the current lineage
RECURSIVE SearchIdx(_, _, _, _)
SearchIdx(items, i, resource, pipe_idx) ==
    IF i > Len(items) THEN pipe_idx
    ELSE IF get_resource_from_prov(items[i]) = resource
         THEN IF IsList(items[i]) THEN generate_prov_string(items[i]).idx
              ELSE PyStr(items[i])
         ELSE SearchIdx(items, i + 1, resource, pipe_idx)

\* variant: the oldest key of the resource is the one removed
OldestIdx(dct, resource, current_prov_list, pipe_idx) ==
    IF Len(dct) > 0 THEN dct[1].idx ELSE pipe_idx

\* the key whose record a call with fork=False removes from rpool[resource]
OldIdx(dct, resource, current_prov_list, pipe_idx) ==
    LET named == get_resource_from_prov(current_prov_list) = resource
        idx1 == IF named THEN generate_prov_string(current_prov_list).idx ELSE pipe_idx
        search == IF named THEN idx1 \notin Idxs(dct) ELSE TRUE
    IN  IF search THEN SearchIdx(current_prov_list.items, 1, resource, idx1) ELSE idx1

\* variant: the deletion step without its test of fork
AfterDeleteForked(rp, resource, current_prov_list, pipe_idx, fork) ==
    IF ~Has(rp, resource) THEN <<>>
    ELSE DelIdx(rp[resource], OldIdx(rp[resource], resource, current_prov_list, pipe_idx))

\* rpool[resource] after the deletion step of set_data
AfterDelete(rp, resource, current_prov_list, pipe_idx, fork) ==
    IF ~Has(rp, resource) THEN <<>>
    ELSE IF fork THEN rp[resource]
         ELSE DelIdx(rp[resource], OldIdx(rp[resource], resource, current_prov_list, pipe_idx))

\* variant: an empty record is added without the test
AlwaysNewSlot(dct, new_pipe_idx) == Append(dct, EmptyRec(new_pipe_idx))

\* rpool[resource] after `if new_pipe_idx not in self.rpool[resource]:
\* self.rpool[resource][new_pipe_idx] = {}`
NewSlot(dct, new_pipe_idx) ==
    IF new_pipe_idx \notin Idxs(dct) THEN Append(dct, EmptyRec(new_pipe_idx)) ELSE dct

\* the key of rpool[resource] whose record 'del self.rpool[resource][pipe_idx]'
\* removes in a call of set_data, None when the call removes none
Removed(rp, resource, json_info, pipe_idx, fork) ==
    LET cpac_prov == IF Has(json_info, "CpacProvenance")
                     THEN json_info["CpacProvenance"] ELSE List(<<>>)
    IN  IF ~Has(rp, resource) \/ fork THEN None
        ELSE LET old == OldIdx(rp[resource], resource, cpac_prov, pipe_idx)
             IN  IF old \in Idxs(rp[resource]) THEN old ELSE None

\* variant: the record's own step is appended to an injected lineage too
AppendedAlways(cpac_prov, resource, node_name, inject) ==
    List(Append(cpac_prov.items, Entry(resource, node_name)))

\* new_prov_list: the lineage given, with f'{resource}:{node_name}' appended
\* unless inject
NewProvList(cpac_prov, resource, node_name, inject) ==
    IF ~inject
    THEN List(Append(cpac_prov.items, Entry(resource, node_name)))
    ELSE cpac_prov

\* the key of rpool[resource] whose record a call of set_data does not
\* create but writes 'data' and 'json' into, None when the record is new
Overwritten(rp, resource, json_info, pipe_idx, node_name, fork, inject) ==
    LET cpac_prov == IF Has(json_info, "CpacProvenance")
                     THEN json_info["CpacProvenance"] ELSE List(<<>>)
        gen == generate_prov_string(NewProvList(cpac_prov, resource, node_name, inject))
        dct1 == AfterDelete(rp, resource, cpac_prov, pipe_idx, fork)
    IN  IF gen.raised = "none" /\ gen.idx \in Idxs(dct1) THEN gen.idx ELSE None

\* variant: the metadata is stored as it was given
AsGiven(json_info, new_prov_list) == json_info

\* json_info['CpacProvenance'] = new_prov_list
WithProvenance(json_info, new_prov_list) ==
    Put(json_info, "CpacProvenance", new_prov_list)

\* the pool, the registry and the table a call of set_data leaves, and the
\* exception it raised
set_data(rp, pl, rt, resource, data, json_info, pipe_idx, node_name, fork, inject) ==
    LET cpac_prov == IF Has(json_info, "CpacProvenance")
                     THEN json_info["CpacProvenance"] ELSE List(<<>>)
        current_prov_list == cpac_prov
        new_prov_list == NewProvList(cpac_prov, resource, node_name, inject)
        gen == generate_prov_string(new_prov_list)
    IN  IF gen.raised # "none"
        THEN [rpool |-> rp, pipe_list |-> pl, rtable |-> rt, raised |-> "IndexError"]
        ELSE
        LET new_pipe_idx == gen.idx
            json0 == IF DOMAIN json_info = {}
                     THEN Put(<<>>, "RawSources", <<resource>>) ELSE json_info
            json1 == WithProvenance(json0, new_prov_list)
            dct1 == AfterDelete(rp, resource, current_prov_list, pipe_idx, fork)
            dct2 == NewSlot(dct1, new_pipe_idx)
            pl1 == IF new_pipe_idx \notin Range(pl) THEN Append(pl, new_pipe_idx) ELSE pl
            parsed == parse_bids_tags(resource)
            rt1 == IF ~Has(rt, parsed.resource_type)
                   THEN Put(rt, parsed.resource_type, <<>>) ELSE rt
            upd == UpdateTags(rt1[parsed.resource_type], parsed.tag_dct, 1, resource)
            rt2 == Put(rt1, parsed.resource_type, upd.tbl)
        IN  IF upd.raised # "none"
            THEN [rpool |-> Put(rp, resource, dct2), pipe_list |-> pl1,
                  rtable |-> rt2, raised |-> upd.raised]
            ELSE [rpool |-> Put(rp, resource,
                                SetIdx(dct2, new_pipe_idx, Rec(new_pipe_idx, data, json1))),
                  pipe_list |-> pl1, rtable |-> rt2, raised |-> "none"]

-----------------------------------------------------------------------------
(* ResourcePool.get and ResourcePool.get_strats *)

\* the declared inputs of a block: a name, a list of alternative names, or
\* a tuple of linked names
Name(n) == [kind |-> "name", names |-> <<n>>]

Alts(ns) == [kind |-> "alts", names |-> ns]

Linked(ns) == [kind |-> "linked", names |-> ns]

RECURSIVE FirstPresent(_, _, _)
FirstPresent(rp, names, i) ==
    IF i > Len(names) THEN None
    ELSE IF Has(rp, names[i]) THEN names[i] ELSE FirstPresent(rp, names, i + 1)

\* variant: only the first of the names is looked for
FirstOnly(rp, names) == IF Has(rp, names[1]) THEN names[1] ELSE None

\* get(resource, report_fetched=True, optional=True)[1]: the name fetched,
\* None when no requested name is in the pool
Fetched(rp, names) == FirstPresent(rp, names, 1)

\* what a call of get gives: the dict of lineage keys of a name, None, or
\* an exception
Returned(dct) == [is_none |-> FALSE, value |-> dct, raised |-> "none"]

ReturnedNone == [is_none |-> TRUE, value |-> <<>>, raised |-> "none"]

Raised(exception) == [is_none |-> FALSE, value |-> <<>>, raised |-> exception]

\* no call of get yet
NoGot == [is_none |-> FALSE, value |-> <<>>, raised |-> "no call"]

\* get(resource, optional=optional), of one name or of a list of names
get(rp, resource, optional) ==
    IF resource.kind = "alts"
    THEN LET label == FirstPresent(rp, resource.names, 1)
         IN  IF label # None THEN Returned(rp[label])
             ELSE IF optional THEN ReturnedNone
             ELSE Raised(ListNotInPool)
    ELSE LET name == resource.names[1]
         IN  IF ~Has(rp, name)
             THEN IF optional THEN ReturnedNone ELSE Raised(NameNotInPool)
             ELSE Returned(rp[name])

\* the first loop of get_strats: [resource_list, linked_resources]; an entry
\* of resource_list is the list of names that get() is called with
RECURSIVE GrabLinked(_, _, _)
GrabLinked(rp, labels, i) ==
    IF i > Len(labels) THEN <<>>
    ELSE (IF Fetched(rp, <<labels[i]>>) = None THEN <<>> ELSE <<labels[i]>>)
         \o GrabLinked(rp, labels, i + 1)

RECURSIVE ResourceList(_, _, _)
ResourceList(rp, resources, i) ==
    IF i > Len(resources) THEN [resource_list |-> <<>>, linked_resources |-> <<>>]
    ELSE LET rest == ResourceList(rp, resources, i + 1)
             r == resources[i]
         IN  IF r.kind = "linked"
             THEN LET linked == GrabLinked(rp, r.names, 1)
                  IN  [resource_list |->
                           [j \in DOMAIN linked |-> <<linked[j]>>] \o rest.resource_list,
                       linked_resources |->
                           (IF Len(linked) < 2 THEN <<>> ELSE <<linked>>)
                           \o rest.linked_resources]
             ELSE [resource_list |-> <<r.names>> \o rest.resource_list,
                   linked_resources |-> rest.linked_resources]

\* the fork labels a record brings into variant_pool: every element of
\* every list of its CpacVariant, and 'NO-' + the first element of each
NoLabel(label) == "NO-" \o label

\* 'NO-' in label
HasNo(label) == \E n \in NodeNames : label = NoLabel(n)

VariantLabels(json) ==
    IF ~Has(json, "CpacVariant") THEN {}
    ELSE LET cv == json["CpacVariant"]
         IN  UNION {Range(cv[key]) \cup {NoLabel(cv[key][1])} : key \in DOMAIN cv}

\* the second loop of get_strats: total_pool (one sub_pool per input
\* present, in the order of resource_list), the names fetched and
\* variant_pool
RECURSIVE TotalPool(_, _, _)
TotalPool(rp, resource_list, i) ==
    IF i > Len(resource_list)
    THEN [total_pool |-> <<>>, variant_pool |-> <<>>]
    ELSE LET rest == TotalPool(rp, resource_list, i + 1)
             fetched_resource == Fetched(rp, resource_list[i])
         IN  IF fetched_resource = None THEN rest
             ELSE LET rp_dct == rp[fetched_resource]
                      sub_pool == [j \in DOMAIN rp_dct |-> rp_dct[j].json["CpacProvenance"]]
                      labels == UNION {VariantLabels(rp_dct[j].json) : j \in DOMAIN rp_dct}
                      old == IF Has(rest.variant_pool, fetched_resource)
                             THEN rest.variant_pool[fetched_resource] ELSE {}
                  IN  [total_pool |-> <<sub_pool>> \o rest.total_pool,
                       variant_pool |-> Put(rest.variant_pool, fetched_resource,
                                            labels \cup old)]

\* variant: len_inputs without the decrements
LenResourceList(rp, resource_list) == Len(resource_list)

\* len_inputs: the length of resource_list, less one for each entry that
\* get() fetches nothing for
LenInputs(rp, resource_list) ==
    Len(resource_list)
    - Cardinality({i \in DOMAIN resource_list : Fetched(rp, resource_list[i]) = None})

\* variant: the one combination of the first lineage of each input
FirstOfEach(total_pool, i) == <<[j \in i..Len(total_pool) |-> total_pool[j][1]]>>

\* itertools.product(*total_pool), each tuple as a list
RECURSIVE Product(_, _)
Product(total_pool, i) ==
    IF i > Len(total_pool) THEN <<<<>>>>
    ELSE LET rest == Product(total_pool, i + 1)
             here == total_pool[i]
             n == Len(rest)
         IN  [j \in 1..(Len(here) * n) |->
                 <<here[((j - 1) \div n) + 1]>> \o rest[((j - 1) % n) + 1]]

\* the strategies without duplicates, by their str()
RECURSIVE Dedup(_, _, _)
Dedup(strat_lists, i, seen) ==
    IF i > Len(strat_lists) THEN <<>>
    ELSE LET strat_str == PyStr(List(strat_lists[i]))
         IN  IF strat_str \in seen THEN Dedup(strat_lists, i + 1, seen)
             ELSE <<strat_lists[i]>> \o Dedup(strat_lists, i + 1, seen \cup {strat_str})

\* current_strat / other_strat: the first fork label of every CpacVariant
\* list of the lineage, and 'NO-' + label for each label of the spread that
\* is not among them
StratLabels(json, spread) ==
    LET cv == IF Has(json, "CpacVariant") THEN json["CpacVariant"] ELSE <<>>
        firsts == {cv[key][1] : key \in DOMAIN cv}
    IN  firsts \cup {NoLabel(l) : l \in {x \in spread : ~HasNo(x) /\ x \notin firsts}}

\* variant: no pair of lineages is dropped
NeverDrop(xjson, yjson, current_spread, other_spread) == FALSE

\* whether the lineage of xlabel and that of ylabel disagree on a fork
DropPair(xjson, yjson, current_spread, other_spread) ==
    LET current_strat == StratLabels(xjson, current_spread)
        other_strat == StratLabels(yjson, other_spread)
    IN  \E variant \in current_spread :
           LET in_current_strat == variant \in current_strat
               in_other_strat == variant \in other_strat
               in_other_spread == variant \in other_spread
           IN  \/ (~in_other_strat /\ in_other_spread /\ in_current_strat)
               \/ (in_other_strat /\ in_other_spread /\ ~in_current_strat)

\* json_dct of one strategy: resource named by the last step -> its json
JsonDct(rp, strat_list) ==
    [res \in {generate_prov_string(strat_list[i]).resource : i \in DOMAIN strat_list} |->
        LET i == CHOOSE j \in DOMAIN strat_list :
                    /\ generate_prov_string(strat_list[j]).resource = res
                    /\ \A k \in DOMAIN strat_list :
                          generate_prov_string(strat_list[k]).resource = res => k <= j
        IN  At(rp[res], generate_prov_string(strat_list[i]).idx).json]

Drop(json_dct, linked_resources, variant_pool) ==
    \E l \in DOMAIN linked_resources :
       \E x, y \in DOMAIN linked_resources[l] :
          LET xlabel == linked_resources[l][x]
              ylabel == linked_resources[l][y]
          IN  /\ xlabel # ylabel
              /\ DropPair(json_dct[xlabel], json_dct[ylabel],
                          variant_pool[xlabel], variant_pool[ylabel])

\* whether every lineage of the strategy is a record of the pool, under
\* the resource its last step names (a KeyError otherwise)
Resolvable(rp, strat_list) ==
    \A i \in DOMAIN strat_list :
       LET gen == generate_prov_string(strat_list[i])
       IN  /\ gen.raised = "none"
           /\ Has(rp, gen.resource)
           /\ gen.idx \in Idxs(rp[gen.resource])
           /\ Has(At(rp[gen.resource], gen.idx).json, "CpacProvenance")

\* a sub-pool (strat_pool): its key, the names of its resources in
\* insertion order, their records, and its 'json' slot
SubPool(idx, names, recs, json) ==
    [idx |-> idx, names |-> names, recs |-> recs, json |-> json]

\* the names of the records of a merged sub-pool, in insertion order
RECURSIVE MergedNames(_, _)
MergedNames(strat_list, i) ==
    IF i > Len(strat_list) THEN <<>>
    ELSE LET rest == MergedNames(strat_list, i + 1)
             res == generate_prov_string(strat_list[i]).resource
         IN  <<res>> \o SelectSeq(rest, LAMBDA n : n # res)

\* CpacVariant of a merged sub-pool: for each label the list of the first
\* input that has it
RECURSIVE MergedVariant(_, _, _, _)
MergedVariant(rp, strat_list, i, acc) ==
    IF i > Len(strat_list) THEN acc
    ELSE LET gen == generate_prov_string(strat_list[i])
             json == At(rp[gen.resource], gen.idx).json
             cv == IF Has(json, "CpacVariant") THEN json["CpacVariant"] ELSE <<>>
             acc1 == [k \in (DOMAIN acc) \cup (DOMAIN cv) |->
                         IF k \in DOMAIN acc THEN acc[k] ELSE cv[k]]
         IN  MergedVariant(rp, strat_list, i + 1, acc1)

\* subjson of a merged sub-pool: per data type, the json of the inputs of
\* that type, a later input updating an earlier one
RECURSIVE MergedSubjson(_, _, _, _)
MergedSubjson(rp, strat_list, i, acc) ==
    IF i > Len(strat_list) THEN acc
    ELSE LET gen == generate_prov_string(strat_list[i])
             json == At(rp[gen.resource], gen.idx).json
             data_type == DataType(gen.resource)
             old == IF Has(acc, data_type) THEN acc[data_type] ELSE <<>>
             upd == [k \in (DOMAIN old) \cup (DOMAIN json) |->
                        IF k \in DOMAIN json THEN json[k] ELSE old[k]]
         IN  MergedSubjson(rp, strat_list, i + 1, Put(acc, data_type, upd))

\* variant: a merged sub-pool with the first record of each resource
FirstRecords(rp, strat_list) ==
    SubPool(PyStr(List(strat_list)), MergedNames(strat_list, 1),
            [res \in Range(MergedNames(strat_list, 1)) |-> rp[res][1]],
            Put(<<>>, "CpacProvenance", List(strat_list)))

MergedSubPool(rp, strat_list) ==
    LET cv == MergedVariant(rp, strat_list, 1, <<>>)
        anycv == \E i \in DOMAIN strat_list :
                    LET gen == generate_prov_string(strat_list[i])
                    IN  Has(At(rp[gen.resource], gen.idx).json, "CpacVariant")
        json0 == Put(Put(<<>>, "subjson", MergedSubjson(rp, strat_list, 1, <<>>)),
                     "CpacProvenance", List(strat_list))
        names == MergedNames(strat_list, 1)
    IN  SubPool(PyStr(List(strat_list)), names,
                [res \in Range(names) |->
                    LET i == CHOOSE j \in DOMAIN strat_list :
                                /\ generate_prov_string(strat_list[j]).resource = res
                                /\ \A k \in DOMAIN strat_list :
                                      generate_prov_string(strat_list[k]).resource = res
                                          => k <= j
                    IN  At(rp[res], generate_prov_string(strat_list[i]).idx)],
                IF anycv THEN Put(json0, "CpacVariant", cv) ELSE json0)

\* the json of a record after get_strats made it the 'json' slot of a
\* sub-pool of one input: 'subjson' and 'CpacProvenance' are set in place
SingleJson(json, cpac_prov, resource) ==
    LET data_type == DataType(resource)
        j1 == Put(Put(json, "subjson", Put(<<>>, data_type, <<>>)),
                  "CpacProvenance", cpac_prov)
    IN  Put(j1, "subjson", Put(<<>>, data_type, j1))

\* the pool after the loop over the lineages of the one input
RECURSIVE SingleMark(_, _, _)
SingleMark(rp, sub_pool, i) ==
    IF i > Len(sub_pool) THEN rp
    ELSE LET gen == generate_prov_string(sub_pool[i])
             rec == At(rp[gen.resource], gen.idx)
             rec1 == Rec(rec.idx, rec.data, SingleJson(rec.json, sub_pool[i], gen.resource))
         IN  SingleMark(Put(rp, gen.resource, SetIdx(rp[gen.resource], gen.idx, rec1)),
                        sub_pool, i + 1)

\* new_strats[pipe_idx] = ...: a key that is there keeps its place
RECURSIVE AddStrats(_, _, _)
AddStrats(acc, pools, i) ==
    IF i > Len(pools) THEN acc
    ELSE AddStrats(SetIdx(acc, pools[i].idx, pools[i]), pools, i + 1)

\* pipe_list after the merged sub-pools are made: the key of each is
\* appended once per input
RECURSIVE AppendKeys(_, _, _)
AppendKeys(pl, kept, i) ==
    IF i > Len(kept) THEN pl
    ELSE AppendKeys(pl \o [j \in DOMAIN kept[i] |-> PyStr(List(kept[i]))], kept, i + 1)

\* what a call of get_strats returns and leaves:
\* [new_strats, rpool, pipe_list, raised]
get_strats(rp, pl, resources) ==
    LET first == ResourceList(rp, resources, 1)
        second == TotalPool(rp, first.resource_list, 1)
        total_pool == second.total_pool
        len_inputs == LenInputs(rp, first.resource_list)
        fail(err) == [new_strats |-> <<>>, rpool |-> rp, pipe_list |-> pl, raised |-> err]
    IN  IF \E i \in DOMAIN first.resource_list :
              LET f == Fetched(rp, first.resource_list[i])
              IN  f # None /\ \E j \in DOMAIN rp[f] : ~Has(rp[f][j].json, "CpacProvenance")
        THEN fail(Incomplete)
        ELSE IF Len(total_pool) = 0
        THEN fail(NoneExist)
        ELSE IF len_inputs > 1
        THEN LET strat_list_list == Dedup(Product(total_pool, 1), 1, {})
             IN  IF \E i \in DOMAIN strat_list_list : ~Resolvable(rp, strat_list_list[i])
                 THEN fail("KeyError")
                 ELSE LET kept == SelectSeq(strat_list_list,
                                     LAMBDA strat_list :
                                        ~Drop(JsonDct(rp, strat_list),
                                              first.linked_resources,
                                              second.variant_pool))
                      IN  [new_strats |->
                               AddStrats(<<>>,
                                   [i \in DOMAIN kept |-> MergedSubPool(rp, kept[i])], 1),
                           rpool |-> rp,
                           pipe_list |-> AppendKeys(pl, kept, 1),
                           raised |-> "none"]
        ELSE LET sub_pool == total_pool[1]
             IN  IF ~Resolvable(rp, sub_pool)
                 THEN fail("KeyError")
                 ELSE LET rp1 == SingleMark(rp, sub_pool, 1)
                      IN  [new_strats |->
                               AddStrats(<<>>,
                                   [i \in DOMAIN sub_pool |->
                                       LET gen == generate_prov_string(sub_pool[i])
                                           rec == At(rp1[gen.resource], gen.idx)
                                       IN  SubPool(gen.idx, <<gen.resource>>,
                                                   Put(<<>>, gen.resource, rec),
                                                   rec.json)], 1),
                           rpool |-> rp1,
                           pipe_list |-> pl,
                           raised |-> "none"]

-----------------------------------------------------------------------------
(* The operations on the pool *)

Keys(rp, resource) == IF Has(rp, resource) THEN Idxs(rp[resource]) ELSE {}

\* what the ghost variable call records of a call of set_data
SetDataCall(resource, data, json_info, pipe_idx, node_name, fork, inject) ==
    [op |-> "set_data", resource |-> resource, data |-> data, json_info |-> json_info,
     pipe_idx |-> pipe_idx, node_name |-> node_name, fork |-> fork, inject |-> inject]

NoCall == [op |-> "init"]

\* the lineage set_data is given: json_info['CpacProvenance'], or []
GivenProv(json_info) ==
    IF Has(json_info, "CpacProvenance") THEN json_info["CpacProvenance"] ELSE List(<<>>)

\* two calls of set_data for the same resource, ancestor lineage and
\* producer id, with the same fork and inject
SameCall(c, d) ==
    /\ c.op = "set_data" /\ d.op = "set_data"
    /\ c.resource = d.resource
    /\ GivenProv(c.json_info) = GivenProv(d.json_info)
    /\ c.node_name = d.node_name
    /\ c.fork = d.fork /\ c.inject = d.inject

\* the bounds of the model on a pool: the length of a lineage and the
\* number of lineages of one resource
InBounds(rp) ==
    \A res \in DOMAIN rp :
       /\ Len(rp[res]) <= MaxKeys
       /\ \A i \in DOMAIN rp[res] :
             Has(rp[res][i].json, "CpacProvenance") =>
                 Len(flatten_prov(rp[res][i].json["CpacProvenance"])) <= MaxProvLen

\* one call of set_data on the pool
CallSetData(resource, data, json_info, pipe_idx, node_name, fork, inject) ==
    LET r == set_data(rpool, pipe_list, rtable, resource, data, json_info,
                      pipe_idx, node_name, fork, inject)
        c == SetDataCall(resource, data, json_info, pipe_idx, node_name, fork, inject)
    IN  /\ raised = "none"
        /\ rpool' = r.rpool
        /\ pipe_list' = r.pipe_list
        /\ rtable' = r.rtable
        /\ raised' = r.raised
        /\ call' = c
        /\ before' = rpool
        /\ last_set' = c
        /\ again' = SameCall(c, last_set)

\* one call of set_data that leaves the pool within the bounds of the model
DoSetData(resource, data, json_info, pipe_idx, node_name, fork, inject) ==
    /\ InBounds(set_data(rpool, pipe_list, rtable, resource, data, json_info,
                         pipe_idx, node_name, fork, inject).rpool)
    /\ CallSetData(resource, data, json_info, pipe_idx, node_name, fork, inject)

\* the data initiate_rpool finds, in the order it enters them: the raw
\* scan, then the prior outputs of the output directory
Ingresses ==
    <<[how |-> "raw", resource |-> "bold"],
      [how |-> "output_dir", resource |-> "bold"],
      [how |-> "output_dir", resource |-> "desc-preproc_bold"],
      [how |-> "output_dir", resource |-> "desc-mean_bold"]>>

\* ingress_raw_func_data: the raw data, entered with no ancestry and
\* without inject
Ingress ==
    /\ pc = "ingress"
    /\ stage < Len(Ingresses)
    /\ Ingresses[stage + 1].how = "raw"
    /\ DoSetData(Ingresses[stage + 1].resource, <<"func_ingress", "outputspec.rest">>,
                 <<>>, "", IngressNode, FALSE, FALSE)
    /\ stage' = stage + 1
    /\ UNCHANGED <<cfg, strats, pc, block, pos, got, conn>>

\* the lineage ingress_output_dir gives a prior output of resource that has
\* no sidecar, or whose sidecar has no lineage
SidecarProv(resource) == List(<<Entry(resource, ForeignNode)>>)

\* ingress_output_dir: a prior output, entered with inject=True
Inject ==
    /\ pc = "ingress"
    /\ stage < Len(Ingresses)
    /\ Ingresses[stage + 1].how = "output_dir"
    /\ LET resource == Ingresses[stage + 1].resource
           prov == SidecarProv(resource)
           gen == generate_prov_string(prov)
       IN  DoSetData(resource, <<"gather", "outputspec.data">>,
                     Put(<<>>, "CpacProvenance", prov),
                     TupleStr(gen.resource, gen.idx), OptName(resource, "ingress"),
                     FALSE, TRUE)
    /\ stage' = stage + 1
    /\ UNCHANGED <<cfg, strats, pc, block, pos, got, conn>>

\* set_data called with inject=True for data whose metadata has no lineage
InjectBare ==
    /\ pc = "ingress"
    /\ stage < Len(Ingresses)
    /\ LET resource == Ingresses[stage + 1].resource
       IN  DoSetData(resource, <<"gather", "outputspec.data">>, <<>>, "",
                     OptName(resource, "ingress"), FALSE, TRUE)
    /\ stage' = stage + 1
    /\ UNCHANGED <<cfg, strats, pc, block, pos, got, conn>>

\* the build has no such data
NoData ==
    /\ pc = "ingress"
    /\ raised = "none"
    /\ stage < Len(Ingresses)
    /\ stage' = stage + 1
    /\ UNCHANGED <<cfg, rpool, pipe_list, rtable, strats, raised, pc, block, pos, call,
                   before, last_set, again, got, conn>>

\* initiate_rpool returns: the node blocks are connected next
Initiated ==
    /\ pc = "ingress"
    /\ raised = "none"
    /\ stage = Len(Ingresses)
    /\ pc' = "idle"
    /\ stage' = 0
    /\ UNCHANGED <<cfg, rpool, pipe_list, rtable, strats, raised, block, pos, call,
                   before, last_set, again, got, conn>>

\* what the configuration can say of a node block: switched off, on, on
\* and off (a fork), or on with both of its options selected
Configs == {"off", "on", "fork", "options"}

\* and of a node block that has an option axis: on with none of its options
\* selected; and, for an axis that is a list of configuration paths, on with
\* none of the paths set or with both set
AxisConfigs == {"unselected", "no_paths", "both_paths"}

\* and of a NodeBlock made of a list of two block functions: the first is
\* on, the other one, which has no option axis, is switched off
ListConfigs == {"beside"}

AllConfigs == Configs \cup AxisConfigs \cup ListConfigs

\* what a call of the body of a node block can come to: it returns outputs,
\* returns none, raises an IOError, or raises another exception
Outcomes == {"outs", "no outs", "IOError", "error", "undeclared"}

\* the IOErrors a body can raise: the node is a duplicate, or a file the
\* body reads is not there
DuplicateNode == "IOError: Duplicate node name found"
MissingFile == "FileNotFoundError: No such file or directory"

IOErrors == {DuplicateNode, MissingFile}

\* the node blocks of the pipeline in their order, with the configurations
\* each is connected under and what the calls of its body can come to
Pipeline ==
    <<[name |-> "M", inputs |-> <<Name("bold")>>, outputs |-> <<"bold">>,
       configs |-> AllConfigs, body |-> Outcomes],
      [name |-> "M", inputs |-> <<Name("bold")>>, outputs |-> <<"bold">>,
       configs |-> Configs, body |-> {"outs"}],
      [name |-> "M", inputs |-> <<Alts(<<"desc-mean_bold", "desc-preproc_bold">>)>>,
       outputs |-> <<"desc-preproc_bold">>, configs |-> Configs, body |-> {"outs"}],
      [name |-> "M", inputs |-> <<Linked(<<"bold", "desc-preproc_bold">>)>>,
       outputs |-> <<"desc-preproc_bold">>, configs |-> Configs, body |-> {"outs"}],
      [name |-> "M", inputs |-> <<Name("bold")>>, outputs |-> <<"desc-mean_bold">>,
       configs |-> Configs, body |-> {"outs"}],
      [name |-> "M", inputs |-> <<Name("desc-preproc_bold")>>,
       input_interface |-> <<<<"desc-preproc_bold", "bold">>>>,
       outputs |-> <<"desc-mean_bold">>, configs |-> Configs, body |-> {"outs"}],
      [name |-> "M", inputs |-> <<Name("desc-mean_bold"), Name("bold")>>,
       outputs |-> <<"desc-mean_bold">>, configs |-> Configs, body |-> {"outs"}],
      [name |-> "M", inputs |-> <<Name("desc-preproc_bold")>>,
       outputs |-> <<"desc-preproc_bold">>, configs |-> {"off", "on"}, body |-> {"outs"}]>>

\* the node block connected after n of them
BlockAt(n) == Pipeline[(n % Len(Pipeline)) + 1]

\* the option axis of a docstring: None, an option_key with its option_val,
\* or an option_key that is a list of configuration paths with no option_val
NoAxis == [option_key |-> None, option_val |-> <<>>]

KeyAxis(option_val) == [option_key |-> "key", option_val |-> option_val]

PathsAxis(paths) == [option_key |-> "paths", paths |-> paths, option_val |-> <<>>]

\* the members of seq, in its order, that are in selected
Selected(seq, selected) == SelectSeq(seq, LAMBDA o : o \in Range(selected))

\* opts of the first loop of connect_block, which all_opts collects: the
\* declared values the configuration holds, the last elements of the paths
\* the configuration has set, or [None]
FirstLoopOpts(axis, selected) ==
    CASE axis.option_key = "key" -> Selected(axis.option_val, selected)
      [] axis.option_key = "paths" -> Selected(axis.paths, selected)
      [] OTHER -> <<None>>

\* variant: the first of the values the configuration holds, no more
FirstOptOnly(axis, selected) ==
    IF axis.option_key # None /\ Len(axis.option_val) > 0
    THEN LET held == Selected(axis.option_val, selected)
         IN  IF Len(held) = 0 THEN held ELSE <<held[1]>>
    ELSE <<None>>

\* opts of the second loop of connect_block, which the body is called with:
\* the declared values the configuration holds when the docstring has both
\* option_key and option_val, [None] otherwise
SecondLoopOpts(axis, selected) ==
    IF axis.option_key # None /\ Len(axis.option_val) > 0
    THEN Selected(axis.option_val, selected)
    ELSE <<None>>

\* the option axis a configuration is about, and what the configuration
\* holds for it
AxisOf(config) ==
    CASE config \in {"options", "unselected"} -> KeyAxis(Options)
      [] config \in {"no_paths", "both_paths"} -> PathsAxis(Options)
      [] OTHER -> NoAxis

HeldBy(config) == IF config \in {"options", "both_paths"} THEN Options ELSE <<>>

\* the other block functions of the NodeBlock, as the loops of connect_block
\* see them: the value of the switch, the option axis and what the
\* configuration holds for it
OthersOf(config) ==
    IF config \in ListConfigs
    THEN <<[switch |-> <<FALSE>>, axis |-> NoAxis, selected |-> <<>>]>>
    ELSE <<>>

\* what the first loop of connect_block adds to all_opts for the block
\* functions from the i-th of others on
RECURSIVE OthersOpts(_, _)
OthersOpts(others, i) ==
    IF i > Len(others) THEN <<>>
    ELSE FirstLoopOpts(others[i].axis, others[i].selected) \o OthersOpts(others, i + 1)

\* a node block as connect_block sees it: its name, inputs and outputs, the
\* value of its switch, the option values its docstring declares and those
\* of them the configuration selects
\* self.input_interface: the list of (name in the docstring, name in the
\* pool) pairs a block function is registered with, [] when it comes alone
InputInterface(nb) ==
    IF "input_interface" \in DOMAIN nb THEN nb.input_interface ELSE <<>>

\* NodeBlock.__init__ for one pair of the interface: an input named
\* interface[0] is removed and interface[1] appended; in a tuple of linked
\* names the tuple is removed and appended with the name replaced
InterfacedOne(inputs, interface) ==
    LET hit(r) == \/ r.kind = "name" /\ r.names[1] = interface[1]
                  \/ r.kind = "linked" /\ interface[1] \in Range(r.names)
        swap(r) == IF r.kind = "name" THEN Name(interface[2])
                   ELSE Linked(SelectSeq(r.names, LAMBDA n : n # interface[1])
                               \o <<interface[2]>>)
        moved == SelectSeq(inputs, hit)
    IN  SelectSeq(inputs, LAMBDA r : ~hit(r)) \o [j \in DOMAIN moved |-> swap(moved[j])]

RECURSIVE InterfacedInputs(_, _, _)
InterfacedInputs(inputs, input_interface, i) ==
    IF i > Len(input_interface) THEN inputs
    ELSE InterfacedInputs(InterfacedOne(inputs, input_interface[i]), input_interface, i + 1)

Configured(nb, config) ==
    [name |-> nb.name, inputs |-> InterfacedInputs(nb.inputs, InputInterface(nb), 1),
     input_interface |-> InputInterface(nb),
     outputs |-> nb.outputs, body |-> nb.body,
     switch |-> CASE config = "off" -> <<FALSE>>
                  [] config = "fork" -> <<TRUE, FALSE>>
                  [] OTHER -> <<TRUE>>,
     axis |-> AxisOf(config),
     selected |-> HeldBy(config),
     option_val |-> AxisOf(config).option_val,
     others |-> OthersOf(config),
     all_opts |-> FirstLoopOpts(AxisOf(config), HeldBy(config))
                  \o OthersOpts(OthersOf(config), 1),
     opts |-> SecondLoopOpts(AxisOf(config), HeldBy(config))]

NoBlock == [name |-> None]

\* the keys the docstring of a block function must have
init_dct_schema ==
    <<"name", "config", "switch", "option_key", "option_val", "inputs", "outputs">>

\* Exception('[!] Developer info: At least one of the required docstring
\* keys in your node block is missing. ...')
MissingDocstringKey == "Exception: At least one of the required docstring keys is missing"

\* variant: only the name is looked for
NameRequired(keys) == IF "name" \notin keys THEN MissingDocstringKey ELSE "none"

\* what grab_docstring_dct raises for a docstring that has these keys
grab_docstring_dct(keys) ==
    IF \E i \in DOMAIN init_dct_schema : init_dct_schema[i] \notin keys
    THEN MissingDocstringKey
    ELSE "none"

\* the keys of the docstrings of the block functions of the pipeline
Declared == Range(init_dct_schema)

NoEntryPool == [rpool |-> <<>>, pipe_list |-> <<>>, rtable |-> <<>>]

\* 'if not opts: continue'
HasOpts(b) == Len(b.opts) > 0

\* variant: the switch is not looked at
ApplicableAlways(b) == TRUE

\* 'if True in switch:'
Applicable(b) == TRUE \in Range(b.switch)

\* the turns of the second loop of connect_block for the other block
\* functions of the NodeBlock do nothing: none has a True in its switch
OthersOff(b) == \A i \in DOMAIN b.others : ~Applicable(b.others[i])

\* connect_block is called for block b
Connecting(b) ==
    /\ grab_docstring_dct(Declared) = "none"
    /\ OthersOff(b)
    /\ connected' = b
    /\ entry' = [rpool |-> rpool, pipe_list |-> pipe_list, rtable |-> rtable]
    /\ invoked' = <<>>
    /\ log' = <<>>
    /\ detached' = {}

\* connect_block of a block none of whose options is selected: nothing is
\* done
NoOptions(config) ==
    LET b == Configured(BlockAt(stage), config)
    IN  /\ raised = "none"
        /\ pc = "idle"
        /\ stage < MaxBlocks
        /\ config \in BlockAt(stage).configs
        /\ ~HasOpts(b)
        /\ Connecting(b)
        /\ stage' = stage + 1
        /\ UNCHANGED <<cfg, rpool, pipe_list, rtable, strats, raised, pc, block, pos, call,
                       before, last_set, again, got>>

\* connect_block of a block whose switch is off: nothing is done
SkipBlock(config) ==
    LET b == Configured(BlockAt(stage), config)
    IN  /\ raised = "none"
        /\ pc = "idle"
        /\ stage < MaxBlocks
        /\ config \in BlockAt(stage).configs
        /\ HasOpts(b)
        /\ ~Applicable(b)
        /\ Connecting(b)
        /\ stage' = stage + 1
        /\ UNCHANGED <<cfg, rpool, pipe_list, rtable, strats, raised, pc, block, pos, call,
                       before, last_set, again, got>>

\* connect_block up to its first invocation: the call of get_strats
StartBlock(config) ==
    LET b == Configured(BlockAt(stage), config)
        r == get_strats(rpool, pipe_list, b.inputs)
        c == [op |-> "get_strats", resources |-> b.inputs]
    IN  /\ raised = "none"
        /\ pc = "idle"
        /\ stage < MaxBlocks
        /\ config \in BlockAt(stage).configs
        /\ HasOpts(b)
        /\ Applicable(b)
        /\ Connecting(b)
        /\ strats' = r.new_strats
        /\ rpool' = r.rpool
        /\ pipe_list' = r.pipe_list
        /\ raised' = r.raised
        /\ call' = c
        /\ before' = rpool
        /\ block' = b
        /\ pos' = <<1, 1, 1>>
        /\ stage' = stage + 1
        /\ pc' = IF r.raised = "none" /\ Len(r.new_strats) > 0 THEN "invoke" ELSE "idle"
        /\ got' = NoGot
        /\ UNCHANGED <<cfg, rtable, last_set, again>>

\* run_node_blocks comes to a block function whose docstring lacks one of
\* the keys: NodeBlock(block) raises in grab_docstring_dct and connect_block
\* is not called. (Were the NodeBlock constructed, connect_block would raise
\* the KeyError of the key, before it calls get_strats.)
Malformed ==
    \E key \in Range(init_dct_schema) :
        LET r == grab_docstring_dct(Declared \ {key})
        IN  /\ raised = "none"
            /\ pc = "idle"
            /\ stage < MaxBlocks
            /\ call' = [op |-> "NodeBlock"]
            /\ IF r # "none"
               THEN /\ raised' = r
                    /\ UNCHANGED <<stage, conn>>
               ELSE /\ raised' = "KeyError"
                    /\ stage' = stage + 1
                    /\ connected' = Configured(BlockAt(stage), "on")
                    /\ entry' = [rpool |-> rpool, pipe_list |-> pipe_list,
                                 rtable |-> rtable]
                    /\ invoked' = <<>>
                    /\ log' = <<>>
                    /\ detached' = {}
            /\ UNCHANGED <<cfg, rpool, pipe_list, rtable, strats, pc, block, pos, before,
                           last_set, again, got>>

\* strat_pool.get_entire_rpool(): the keys of the rpool of a sub-pool
EntireRpool(strat_pool) ==
    IF Len(strat_pool.names) = 1 THEN strat_pool.names \o <<"json">>
    ELSE <<"json">> \o strat_pool.names

\* the keys after 'strat_pool.copy_resource(input_name, interface[0])' for
\* every pair of the interface
RECURSIVE CopyResources(_, _, _)
CopyResources(keys, input_interface, i) ==
    IF i > Len(input_interface) THEN keys
    ELSE CopyResources(IF input_interface[i][1] \in Range(keys) THEN keys
                       ELSE Append(keys, input_interface[i][1]),
                       input_interface, i + 1)

\* replaced_inputs
ReplacedInputs(input_interface) ==
    [i \in DOMAIN input_interface |-> input_interface[i][1]]

\* variant: every key but 'json'
SourcesOfAll(keys, replaced_inputs) == SelectSeq(keys, LAMBDA x : x # "json")

\* [x for x in strat_pool.get_entire_rpool() if x != 'json' and x not in
\* replaced_inputs]
Sources(keys, replaced_inputs) ==
    SelectSeq(keys, LAMBDA x : x # "json" /\ x \notin Range(replaced_inputs))

\* new_json_info of connect_block for one output of one invocation: the
\* 'json' slot of the sub-pool with Sources set, subjson removed and, when
\* the invocation is tagged as a fork, node_name appended to the fork tags
\* of the raw label of the output
NewJsonInfo(strat_pool, input_interface, label, node_name, tagged) ==
    LET j1 == Put(strat_pool.json, "Sources",
                  Sources(CopyResources(EntireRpool(strat_pool), input_interface, 1),
                          ReplacedInputs(input_interface)))
        j2 == Del(j1, "subjson")
        cv == IF Has(j2, "CpacVariant") THEN j2["CpacVariant"] ELSE <<>>
        raw_label == get_raw_label(label)
        old == IF Has(cv, raw_label) THEN cv[raw_label] ELSE <<>>
    IN  IF tagged THEN Put(j2, "CpacVariant", Put(cv, raw_label, Append(old, node_name)))
        ELSE j2

\* variant: the option is always part of the name
NodeNameOfOpt(b, opt) == OptName(b.name, opt)

\* the name of the node of one invocation
NodeName(b, opt) ==
    IF opt # None /\ Len(b.option_val) > 1 THEN OptName(b.name, opt) ELSE b.name

\* variant: fork=True is never passed
IsForkNever(b) == FALSE

\* whether connect_block passes fork=True to set_data
IsFork(b) == FALSE \in Range(b.switch)

\* variant: every output is tagged
IsTaggedAlways(b) == TRUE

\* variant: only the outputs of a forked switch are tagged
IsTaggedByFork(b) == IsFork(b)

\* whether connect_block appends the node to the fork tags of the output
IsTagged(b) == IsFork(b) \/ Len(b.opts) > 1 \/ Len(b.all_opts) > 1

\* the position after p = (sub-pool, option, output) in the loops of
\* connect_block
NextPos(b, p) ==
    IF p[3] < Len(b.outputs) THEN <<p[1], p[2], p[3] + 1>>
    ELSE IF p[2] < Len(b.opts) THEN <<p[1], p[2] + 1, 1>>
    ELSE <<p[1] + 1, 1, 1>>

\* variant: the loop over the options is left, not continued
NextSubPool(b, p) == <<p[1] + 1, 1, 1>>

\* the position after the invocation at p, when 'continue' leaves it
NextPair(b, p) ==
    IF p[2] < Len(b.opts) THEN <<p[1], p[2] + 1, 1>> ELSE <<p[1] + 1, 1, 1>>

\* the sub-pool of the i-th turn of the loop over the items of the dict
\* that the one call of get_strats returned
StratPool(strat_dct, rp, pl, b, i) == strat_dct[i]

\* what invoked records of one call of the body: the sub-pool and the
\* option it was given, and what it came to
Invocation(strat_pool, opt, outcome) ==
    [strat_pool |-> strat_pool, opt |-> opt, outcome |-> outcome]

\* the body is called at pos, the first output of a pair, and comes to
\* outcome
Invoke(outcome) ==
    invoked' = IF pos[3] = 1
               THEN Append(invoked,
                           Invocation(StratPool(strats, rpool, pipe_list, block, pos[1]),
                                      block.opts[pos[2]], outcome))
               ELSE invoked

\* what call records of the call of the body at pos, when no call of
\* set_data follows it
BodyCall ==
    [op |-> "block_function", pipe_idx |-> strats[pos[1]].idx, opt |-> block.opts[pos[2]]]

\* the calls of the body that made connect_block skip their pair
Skips == SelectSeq(invoked, LAMBDA i : i.outcome \in {"no outs", "IOError"})

\* the sub-pools after set_data wrote 'data' and 'json' into the record
\* rp[resource][key], which it did not create: a sub-pool holds the very
\* dict that is the record of the main pool (new_strats[pipe_idx].rpool[
\* resource] = resource_strat_dct), so it sees what is written into it,
\* unless the record it holds has been deleted from the main pool since
Written(strat_dct, gone, rp, resource, key) ==
    IF key = None \/ <<resource, key>> \in gone THEN strat_dct
    ELSE [i \in DOMAIN strat_dct |->
            IF Has(strat_dct[i].recs, resource) /\ strat_dct[i].recs[resource].idx = key
            THEN [strat_dct[i] EXCEPT !.recs = Put(strat_dct[i].recs, resource,
                                                  At(rp[resource], key))]
            ELSE strat_dct[i]]

\* connect_block goes on at position np with the sub-pools strat_dct, or
\* returns
GoOn(np, strat_dct) ==
    IF np[1] > Len(strats)
    THEN \* connect_block returns: its locals are gone
         /\ pc' = "idle"
         /\ pos' = <<1, 1, 1>>
         /\ strats' = <<>>
         /\ block' = NoBlock
    ELSE /\ pc' = "invoke"
         /\ pos' = np
         /\ strats' = strat_dct
         /\ UNCHANGED block

\* connect_block commits one output of one invocation of the body on one
\* sub-pool with one option. After set_data, derivative_xfm is called only
\* if rpool.func_reg, and the call of post_process writes nothing unless
\* run_smoothing or run_zscoring: under the configuration Unprocessed the
\* turn of the loop is the call of set_data
Commit ==
    LET strat_pool == StratPool(strats, rpool, pipe_list, block, pos[1])
        opt == block.opts[pos[2]]
        label == block.outputs[pos[3]]
        node_name == NodeName(block, opt)
        new_json_info == NewJsonInfo(strat_pool, block.input_interface, label, node_name,
                                     IsTagged(block))
        removed == Removed(rpool, label, new_json_info, strat_pool.idx, IsFork(block))
        gone == IF removed = None THEN detached ELSE detached \cup {<<label, removed>>}
        key == Overwritten(rpool, label, new_json_info, strat_pool.idx, node_name,
                           IsFork(block), FALSE)
    IN  /\ pc = "invoke"
        /\ "outs" \in block.body
        /\ IF strat_pool.idx \notin Range(pipe_list)
           THEN /\ raised = "none"
                /\ raised' = "ValueError"
                /\ UNCHANGED <<rpool, pipe_list, rtable, call, before, last_set, again,
                               detached>>
                /\ GoOn(NextPos(block, pos), strats)
           ELSE /\ DoSetData(label, <<node_name, label>>, new_json_info,
                             strat_pool.idx, node_name, IsFork(block), FALSE)
                /\ detached' = gone
                /\ GoOn(NextPos(block, pos),
                        IF raised' = "none"
                        THEN Written(strats, gone, rpool', label, key) ELSE strats)
        /\ Invoke("outs")
        /\ UNCHANGED <<cfg, stage, got, connected, entry, log>>

\* the body returns no outputs: 'if not outs: continue'
Declined ==
    /\ pc = "invoke"
    /\ raised = "none"
    /\ pos[3] = 1
    /\ "no outs" \in block.body
    /\ Len(Skips) < MaxSkips
    /\ Invoke("no outs")
    /\ call' = BodyCall
    /\ GoOn(NextPair(block, pos), strats)
    /\ UNCHANGED <<cfg, rpool, pipe_list, rtable, raised, stage, before, last_set,
                   again, got, connected, entry, log, detached>>

\* the body raises an IOError: the warning is logged and the loop continues
Duplicate ==
    \E e \in IOErrors :
        /\ pc = "invoke"
        /\ raised = "none"
        /\ pos[3] = 1
        /\ "IOError" \in block.body
        /\ Len(Skips) < MaxSkips
        /\ Invoke("IOError")
        /\ log' = Append(log, e)
        /\ call' = BodyCall
        /\ GoOn(NextPair(block, pos), strats)
        /\ UNCHANGED <<cfg, rpool, pipe_list, rtable, raised, stage, before, last_set,
                       again, got, connected, entry, detached>>

\* the body raises another exception, here the LookupError of a required
\* input the sub-pool does not have: connect_block does not catch it
Fatal ==
    /\ pc = "invoke"
    /\ raised = "none"
    /\ pos[3] = 1
    /\ "error" \in block.body
    /\ Invoke("error")
    /\ raised' = NameNotInPool
    /\ call' = BodyCall
    /\ UNCHANGED <<cfg, rpool, pipe_list, rtable, strats, pc, stage, block, pos, before,
                   last_set, again, got, connected, entry, log, detached>>

\* the Exception of check_output: 'Output name in the block function does
\* not match the outputs list in Node Block ...'
OutputNotDeclared == "Exception: Output name does not match the outputs list"

\* the body returns outs whose k + 1st label is not among the outputs of the
\* docstring: the loop over outs.items() sets the labels before it, then
\* check_output raises and connect_block is left
Undeclared ==
    \E k \in 0..1 :
        LET strat_pool == StratPool(strats, rpool, pipe_list, block, pos[1])
            opt == block.opts[pos[2]]
            label == block.outputs[1]
            node_name == NodeName(block, opt)
            new_json_info == NewJsonInfo(strat_pool, block.input_interface, label,
                                         node_name, IsTagged(block))
            c == SetDataCall(label, <<node_name, label>>, new_json_info, strat_pool.idx,
                             node_name, IsFork(block), FALSE)
            r == set_data(rpool, pipe_list, rtable, label, <<node_name, label>>,
                          new_json_info, strat_pool.idx, node_name, IsFork(block), FALSE)
        IN  /\ pc = "invoke"
            /\ raised = "none"
            /\ pos[3] = 1
            /\ "undeclared" \in block.body
            /\ strat_pool.idx \in Range(pipe_list)
            /\ Invoke("undeclared")
            /\ IF k = 0
               THEN /\ raised' = OutputNotDeclared
                    /\ call' = BodyCall
                    /\ UNCHANGED <<rpool, pipe_list, rtable, before, last_set, again>>
               ELSE /\ InBounds(r.rpool)
                    /\ rpool' = r.rpool
                    /\ pipe_list' = r.pipe_list
                    /\ rtable' = r.rtable
                    /\ raised' = IF r.raised # "none" THEN r.raised
                                 ELSE OutputNotDeclared
                    /\ call' = c
                    /\ before' = rpool
                    /\ last_set' = c
                    /\ again' = SameCall(c, last_set)
            /\ UNCHANGED <<cfg, strats, pc, stage, block, pos, got, connected, entry, log,
                           detached>>

\* the names a caller asks get for
Lookups ==
    {Name("bold"), Name("desc-mean_bold"),
     Alts(<<"desc-mean_bold", "desc-preproc_bold">>)}

\* a caller looks a resource up with get in the pool that initiate_rpool
\* returned
Get ==
    \E resource \in Lookups, optional \in BOOLEAN :
        LET r == get(rpool, resource, optional)
        IN  /\ raised = "none"
            /\ pc = "idle"
            /\ stage = 0
            /\ got' = r
            /\ raised' = r.raised
            /\ call' = [op |-> "get", resource |-> resource, optional |-> optional]
            /\ before' = rpool
            /\ UNCHANGED <<cfg, rpool, pipe_list, rtable, strats, pc, stage, block, pos,
                           last_set, again, conn>>

\* ResourcePool.__init__: what the pool keeps of a configuration that does
\* not register the derivatives to the template and asks for neither
\* smoothed nor z-scored outputs
Unprocessed ==
    [func_reg |-> FALSE, run_smoothing |-> FALSE, run_zscoring |-> FALSE,
     smooth_opts |-> <<>>]

Init ==
    /\ cfg = Unprocessed
    /\ rpool = <<>>
    /\ pipe_list = <<>>
    /\ rtable = <<>>
    /\ strats = <<>>
    /\ raised = "none"
    /\ pc = "ingress"
    /\ stage = 0
    /\ block = NoBlock
    /\ pos = <<1, 1, 1>>
    /\ call = NoCall
    /\ before = <<>>
    /\ last_set = NoCall
    /\ again = FALSE
    /\ got = NoGot
    /\ connected = NoBlock
    /\ entry = NoEntryPool
    /\ invoked = <<>>
    /\ log = <<>>
    /\ detached = {}

Next ==
    \/ Ingress
    \/ Inject
    \/ InjectBare
    \/ NoData
    \/ Initiated
    \/ Get
    \/ Malformed
    \/ \E config \in AllConfigs : NoOptions(config)
    \/ \E config \in AllConfigs : SkipBlock(config)
    \/ \E config \in AllConfigs : StartBlock(config)
    \/ Commit
    \/ Declined
    \/ Duplicate
    \/ Fatal
    \/ Undeclared

Spec == Init /\ [][Next]_vars

-----------------------------------------------------------------------------
(* ResourcePool.derivative_xfm and ResourcePool.post_process *)

\* the derivatives derivative_xfm warps to the template: self.xfm
xfm == <<"alff", "falff", "reho">>

xfm_label == "from-bold_to-template_mode-image_xfm"

TemplateDeriv == "T1w-brain-template-deriv"

\* the mask post_process takes for a label that has none of 'centrality',
\* 'lfcd' and 'space-template', as every output label here
BrainMask == "space-bold_desc-brain_mask"

\* Outputs.to_smooth, Outputs.to_zstd and Outputs.to_fisherz: the labels the
\* table of outputs marks for smoothing and for either standardization
to_smooth == {"reho"}

to_zstd == {"reho", "desc-sm_reho"}

to_fisherz == {"desc-MeanSCA_correlations"}

\* 'desc-' in label
HasDesc(label) ==
    label \in {"desc-sm_reho", "desc-MeanSCA_timeseries", "desc-MeanSCA_correlations"}

\* label.replace(tag, f'{tag}-{suffix}') for the first tag of label that has
\* 'desc-' in it
DescSuffixed(label, suffix) ==
    CASE label = "desc-sm_reho" -> "desc-sm-" \o suffix \o "_reho"
      [] label = "desc-MeanSCA_timeseries" -> "desc-MeanSCA-" \o suffix \o "_timeseries"
      [] label = "desc-MeanSCA_correlations" -> "desc-MeanSCA-" \o suffix \o "_correlations"

\* label.replace('correlations', 'timeseries')
Oned(label) ==
    CASE label = "desc-MeanSCA_correlations" -> "desc-MeanSCA_timeseries"
      [] OTHER -> label

\* f'space-template_{label}'
SpaceTemplate(label) == "space-template_" \o label

\* smlabel of a label that has no 'space-' in it
Smoothed(label) ==
    IF HasDesc(label) THEN DescSuffixed(label, "sm") ELSE "desc-sm_" \o label

\* variant: the writes of the enrichment steps pass no fork
EnrichForkDefault == FALSE

\* fork=True, which every call of set_data in derivative_xfm and
\* post_process passes
EnrichFork == TRUE

\* the pool as an enrichment step goes through it: the pool, the exception
\* raised and the calls of set_data made so far, each with the key of the
\* record it wrote into without creating it
Enriching(rp, pl, rt) ==
    [rpool |-> rp, pipe_list |-> pl, rtable |-> rt, raised |-> "none", writes |-> <<>>]

Failed(st, exception) == [st EXCEPT !.raised = exception]

\* the pool st after a call c of set_data that left r and wrote into the
\* record under key without creating it
Wrote(st, r, c, key) ==
    [rpool |-> r.rpool, pipe_list |-> r.pipe_list, rtable |-> r.rtable,
     raised |-> r.raised, writes |-> Append(st.writes, [call |-> c, over |-> key])]

\* one call of set_data by an enrichment step
EnrichWrite(st, resource, data, json_info, pipe_idx, node_name) ==
    Wrote(st,
          set_data(st.rpool, st.pipe_list, st.rtable, resource, data, json_info,
                   pipe_idx, node_name, EnrichFork, FALSE),
          SetDataCall(resource, data, json_info, pipe_idx, node_name, EnrichFork, FALSE),
          Overwritten(st.rpool, resource, json_info, pipe_idx, node_name, EnrichFork,
                      FALSE))

\* the exception of get_data(resource, pipe_idx=pipe_idx,
\* quick_single=quick_single), "none" when it returns the data
get_data(rp, resource, pipe_idx, quick_single) ==
    IF ~Has(rp, resource) THEN NameNotInPool
    ELSE IF pipe_idx # None
         THEN IF pipe_idx \in Idxs(rp[resource]) THEN "none" ELSE "KeyError"
         ELSE IF (quick_single \/ Len(rp[resource]) = 1) /\ Len(rp[resource]) > 0
              THEN "none"
              ELSE "KeyError"

\* 'for entry in json_info['CpacProvenance']: if isinstance(entry, list): if
\* entry[-1].split(':')[0] == resource: ... break': whether there is such an
\* entry, the first of them, and the exception of an entry that has no last
\* str
RECURSIVE FromLineage(_, _, _)
FromLineage(items, i, resource) ==
    IF i > Len(items) THEN [found |-> FALSE, prov |-> List(<<>>), raised |-> "none"]
    ELSE IF ~IsList(items[i]) THEN FromLineage(items, i + 1, resource)
    ELSE IF Len(items[i].items) = 0
         THEN [found |-> FALSE, prov |-> List(<<>>), raised |-> "IndexError"]
    ELSE LET last == items[i].items[Len(items[i].items)]
         IN  IF IsList(last)
             THEN [found |-> FALSE, prov |-> List(<<>>), raised |-> "AttributeError"]
             ELSE IF last.res = resource
             THEN [found |-> TRUE, prov |-> items[i], raised |-> "none"]
             ELSE FromLineage(items, i + 1, resource)

\* xfm_info of a lineage that has no transform in it: every lineage of the
\* transform in the pool, from self.get(xfm_label).items()
PoolTransforms(rp) ==
    [i \in DOMAIN rp[xfm_label] |->
        [idx |-> rp[xfm_label][i].idx,
         prov |-> rp[xfm_label][i].json["CpacProvenance"]]]

\* the loop of derivative_xfm over xfm_info from its num-th turn on: label
\* and json_info['CpacProvenance'] grow from turn to turn
RECURSIVE XfmLoop(_, _, _, _, _)
XfmLoop(st, xfm_info, num, label, json_info) ==
    IF num > Len(xfm_info) \/ st.raised # "none" THEN st
    ELSE LET xfm_prov == xfm_info[num].prov
             reference == get_data(st.rpool, TemplateDeriv, None, TRUE)
             transform == get_data(st.rpool, xfm_label, xfm_info[num].idx, FALSE)
             new_label == SpaceTemplate(label)
             new_prov == List(json_info["CpacProvenance"].items \o xfm_prov.items)
             new_json == Put(json_info, "CpacProvenance", new_prov)
             gen == generate_prov_string(new_prov)
         IN  IF reference # "none" THEN Failed(st, reference)
             ELSE IF transform # "none" THEN Failed(st, transform)
             ELSE IF gen.raised # "none" THEN Failed(st, gen.raised)
             ELSE XfmLoop(EnrichWrite(st, new_label,
                                      <<"transform_derivative", "outputspec.out_file">>,
                                      new_json, TupleStr(gen.resource, gen.idx),
                                      new_label \o "_xfm_" \o ToString(num - 1)),
                          xfm_info, num + 1, new_label, new_json)

\* derivative_xfm(wf, label, connection, json_info, pipe_idx, pipe_x) on the
\* pool st
derivative_xfm(st, label, json_info) ==
    IF label \notin Range(xfm) THEN st
    ELSE LET in == FromLineage(json_info["CpacProvenance"].items, 1, xfm_label)
         IN  IF in.raised # "none" THEN Failed(st, in.raised)
             ELSE IF in.found
             THEN XfmLoop(st, <<[idx |-> generate_prov_string(in.prov).idx,
                                 prov |-> in.prov]>>, 1, label, json_info)
             ELSE IF ~Has(st.rpool, xfm_label) THEN Failed(st, NameNotInPool)
             ELSE XfmLoop(st, PoolTransforms(st.rpool), 1, label, json_info)

\* the loop of post_process over smooth_opts from its i-th turn on: the
\* mask is looked up and the smoothed output is written, then the width
RECURSIVE SmoothLoop(_, _, _, _, _, _, _)
RECURSIVE SmoothWidth(_, _, _, _, _, _, _)
SmoothWidth(sm, smooth_opts, i, label, json_info, pipe_idx, mask_idx) ==
    IF sm.raised # "none" THEN sm
    ELSE SmoothLoop(EnrichWrite(sm, "fwhm", <<"spatial_smoothing", "outputspec.fwhm">>,
                                json_info, pipe_idx,
                                "spatial_smoothing_" \o smooth_opts[i]),
                    smooth_opts, i + 1, label, json_info, pipe_idx, mask_idx)

SmoothLoop(st, smooth_opts, i, label, json_info, pipe_idx, mask_idx) ==
    IF i > Len(smooth_opts) \/ st.raised # "none" THEN st
    ELSE IF get_data(st.rpool, BrainMask, mask_idx, mask_idx = None) # "none"
    THEN Failed(st, get_data(st.rpool, BrainMask, mask_idx, mask_idx = None))
    ELSE SmoothWidth(EnrichWrite(st, Smoothed(label),
                                 <<"spatial_smoothing", "outputspec.out_file">>,
                                 json_info, pipe_idx,
                                 "spatial_smoothing_" \o smooth_opts[i]),
                     smooth_opts, i, label, json_info, pipe_idx, mask_idx)

\* 'if self.run_zscoring:' of post_process: a label that has no 'desc-' is
\* renamed and new_label is left unassigned
Standardized(st, run_zscoring, label, json_info, pipe_idx, mask_idx, outs) ==
    LET renamed == IF HasDesc(label) THEN label ELSE "desc-zstd_" \o label
        mask == get_data(st.rpool, BrainMask, mask_idx, FALSE)
        oned == Oned(renamed)
    IN  IF ~run_zscoring \/ st.raised # "none" THEN st
        ELSE IF renamed \in to_zstd
        THEN IF mask # "none" THEN Failed(st, mask)
             ELSE IF ~HasDesc(label) THEN Failed(st, "UnboundLocalError")
             ELSE EnrichWrite(st, DescSuffixed(label, "zstd"),
                              <<"z_score_standardize", "outputspec.out_file">>,
                              json_info, pipe_idx, "zscore_standardize")
        ELSE IF renamed \in to_fisherz
        THEN IF oned \notin Range(outs) THEN Failed(st, "KeyError")
             ELSE IF ~HasDesc(label) THEN Failed(st, "UnboundLocalError")
             ELSE EnrichWrite(st, DescSuffixed(label, "zstd"),
                              <<"fisher_z_score_standardize", "outputspec.out_file">>,
                              json_info, pipe_idx, "fisher_zscore_standardize")
        ELSE st

\* post_process(wf, label, connection, json_info, pipe_idx, pipe_x, outs) on
\* the pool st, of a pool made with the configuration c
post_process(st, label, json_info, pipe_idx, outs, c) ==
    LET in == FromLineage(json_info["CpacProvenance"].items, 1, BrainMask)
        mask_idx == IF in.found THEN generate_prov_string(in.prov).idx ELSE None
        smoothed == IF c.run_smoothing /\ label \in to_smooth
                    THEN SmoothLoop(st, c.smooth_opts, 1, label, json_info, pipe_idx,
                                    mask_idx)
                    ELSE st
    IN  IF in.raised # "none" THEN Failed(st, in.raised)
        ELSE Standardized(smoothed, c.run_zscoring, label, json_info, pipe_idx,
                          mask_idx, outs)

-----------------------------------------------------------------------------
(* The build of a pipeline that derives, registers, smooths and standardizes *)

\* what a pool can keep of the configuration
Processings ==
    {[func_reg |-> f, run_smoothing |-> s, run_zscoring |-> z, smooth_opts |-> o] :
        f \in BOOLEAN, s \in BOOLEAN, z \in BOOLEAN, o \in {<<"FSL">>, <<"AFNI", "FSL">>}}

\* the node blocks of that pipeline in their order: two registrations of
\* the scan to the template, the mask of the scan, and the blocks that
\* compute derivatives
Derivatives ==
    <<[name |-> "ANTS", inputs |-> <<Name("bold")>>, outputs |-> <<xfm_label>>,
       body |-> {"outs"}],
      [name |-> "FSL", inputs |-> <<Name("bold")>>, outputs |-> <<xfm_label>>,
       body |-> {"outs"}],
      [name |-> "bold_mask", inputs |-> <<Name("bold")>>, outputs |-> <<BrainMask>>,
       body |-> {"outs"}],
      [name |-> "reho", inputs |-> <<Name("bold")>>, outputs |-> <<"reho">>,
       body |-> {"outs"}],
      [name |-> "reho_xfm", inputs |-> <<Name("bold"), Name(xfm_label)>>,
       outputs |-> <<"reho">>, body |-> {"outs"}],
      [name |-> "reho_sm", inputs |-> <<Name("desc-sm_reho")>>,
       outputs |-> <<"reho", "desc-sm_reho">>, body |-> {"outs"}],
      [name |-> "SCA", inputs |-> <<Name("bold")>>,
       outputs |-> <<"desc-MeanSCA_timeseries", "desc-MeanSCA_correlations">>,
       body |-> {"outs"}]>>

\* ingress_raw_func_data of the scan, at the start of initiate_rpool
Scan ==
    /\ pc = "scan"
    /\ CallSetData("bold", <<"func_ingress", "outputspec.rest">>, <<>>, "", IngressNode,
                   FALSE, FALSE)
    /\ pc' = "templates"
    /\ UNCHANGED <<cfg, strats, stage, block, pos, got, conn>>

\* ingress_pipeconfig_paths: the template of the derivatives, when the
\* configuration has a path for it, and initiate_rpool returns
Templates ==
    \E given \in BOOLEAN :
        /\ pc = "templates"
        /\ raised = "none"
        /\ IF given
           THEN CallSetData(TemplateDeriv, <<"resampled_" \o TemplateDeriv,
                                             "resampled_template">>,
                            Put(<<>>, "Resolution", "3mm"), "", "template_resample",
                            FALSE, FALSE)
           ELSE UNCHANGED <<rpool, pipe_list, rtable, raised, call, before, last_set,
                            again>>
        /\ pc' = "ready"
        /\ UNCHANGED <<cfg, strats, stage, block, pos, got, conn>>

\* connect_block of the next block, whose switch is off: nothing is done
SwitchedOff ==
    /\ raised = "none"
    /\ pc = "ready"
    /\ stage < Len(Derivatives)
    /\ Connecting(Configured(Derivatives[stage + 1], "off"))
    /\ stage' = stage + 1
    /\ UNCHANGED <<cfg, rpool, pipe_list, rtable, strats, raised, pc, block, pos, call,
                   before, last_set, again, got>>

\* connect_block of the next block up to its first invocation: the call of
\* get_strats
Derive ==
    LET b == Configured(Derivatives[stage + 1], "on")
        r == get_strats(rpool, pipe_list, b.inputs)
    IN  /\ raised = "none"
        /\ pc = "ready"
        /\ stage < Len(Derivatives)
        /\ Connecting(b)
        /\ strats' = r.new_strats
        /\ rpool' = r.rpool
        /\ pipe_list' = r.pipe_list
        /\ raised' = r.raised
        /\ call' = [op |-> "get_strats", resources |-> b.inputs]
        /\ before' = rpool
        /\ block' = b
        /\ pos' = <<1, 1, 1>>
        /\ stage' = stage + 1
        /\ pc' = IF r.raised = "none" /\ Len(r.new_strats) > 0 THEN "commit" ELSE "ready"
        /\ got' = NoGot
        /\ UNCHANGED <<cfg, rtable, last_set, again>>

\* the sub-pools after the writes of an enrichment step from the i-th on
RECURSIVE WrittenAll(_, _, _, _, _)
WrittenAll(strat_dct, gone, rp, writes, i) ==
    IF i > Len(writes) THEN strat_dct
    ELSE WrittenAll(Written(strat_dct, gone, rp, writes[i].call.resource, writes[i].over),
                    gone, rp, writes, i + 1)

\* the turn of the loop over the outputs: the call of set_data for the
\* output at pos
CommitOutput ==
    LET strat_pool == StratPool(strats, rpool, pipe_list, block, pos[1])
        opt == block.opts[pos[2]]
        label == block.outputs[pos[3]]
        node_name == NodeName(block, opt)
        new_json_info == NewJsonInfo(strat_pool, block.input_interface, label, node_name,
                                     IsTagged(block))
        removed == Removed(rpool, label, new_json_info, strat_pool.idx, IsFork(block))
        gone == IF removed = None THEN detached ELSE detached \cup {<<label, removed>>}
        key == Overwritten(rpool, label, new_json_info, strat_pool.idx, node_name,
                           IsFork(block), FALSE)
    IN  /\ pc = "commit"
        /\ IF strat_pool.idx \notin Range(pipe_list)
           THEN /\ raised = "none"
                /\ raised' = "ValueError"
                /\ UNCHANGED <<rpool, pipe_list, rtable, call, before, last_set, again,
                               detached, strats, pc>>
           ELSE /\ CallSetData(label, <<node_name, label>>, new_json_info,
                               strat_pool.idx, node_name, IsFork(block), FALSE)
                /\ detached' = gone
                /\ strats' = IF raised' = "none"
                             THEN Written(strats, gone, rpool', label, key) ELSE strats
                /\ pc' = IF raised' # "none" THEN pc
                         ELSE IF cfg.func_reg THEN "xfm" ELSE "post"
        /\ Invoke("outs")
        /\ UNCHANGED <<cfg, stage, block, pos, got, connected, entry, log>>

\* what the enrichment step op leaves when it came to r: the pool, the
\* exception, and the last of its calls of set_data
Enriched(op, label, json_info, r) ==
    LET n == Len(r.writes)
    IN  /\ call' = [op |-> op, label |-> label, json_info |-> json_info,
                    writes |-> r.writes]
        /\ rpool' = r.rpool
        /\ pipe_list' = r.pipe_list
        /\ rtable' = r.rtable
        /\ raised' = r.raised
        /\ before' = rpool
        /\ last_set' = IF n = 0 THEN last_set ELSE r.writes[n].call
        /\ again' = IF n = 0 THEN again
                    ELSE SameCall(r.writes[n].call,
                                  IF n = 1 THEN last_set ELSE r.writes[n - 1].call)

\* 'if rpool.func_reg: wf = rpool.derivative_xfm(...)' for the output at pos
Project ==
    LET strat_pool == StratPool(strats, rpool, pipe_list, block, pos[1])
        label == block.outputs[pos[3]]
        node_name == NodeName(block, block.opts[pos[2]])
        new_json_info == NewJsonInfo(strat_pool, block.input_interface, label, node_name,
                                     IsTagged(block))
    IN  /\ pc = "xfm"
        /\ raised = "none"
        /\ Enriched("derivative_xfm", label, new_json_info,
                    derivative_xfm(Enriching(rpool, pipe_list, rtable), label,
                                   new_json_info))
        /\ strats' = WrittenAll(strats, detached, rpool', call'.writes, 1)
        /\ pc' = IF raised' = "none" THEN "post" ELSE pc
        /\ UNCHANGED <<cfg, stage, block, pos, got, conn>>

\* 'wf = rpool.post_process(...)' for the output at pos, which ends the turn
\* of the loop over the outputs
PostProcess ==
    LET strat_pool == StratPool(strats, rpool, pipe_list, block, pos[1])
        label == block.outputs[pos[3]]
        node_name == NodeName(block, block.opts[pos[2]])
        new_json_info == NewJsonInfo(strat_pool, block.input_interface, label, node_name,
                                     IsTagged(block))
        np == NextPos(block, pos)
    IN  /\ pc = "post"
        /\ raised = "none"
        /\ Enriched("post_process", label, new_json_info,
                    post_process(Enriching(rpool, pipe_list, rtable), label,
                                 new_json_info, strat_pool.idx, block.outputs, cfg))
        /\ IF raised' # "none"
           THEN /\ strats' = WrittenAll(strats, detached, rpool', call'.writes, 1)
                /\ UNCHANGED <<pc, pos, block>>
           ELSE IF np[1] > Len(strats)
           THEN /\ pc' = "ready"
                /\ pos' = <<1, 1, 1>>
                /\ strats' = <<>>
                /\ block' = NoBlock
           ELSE /\ pc' = "commit"
                /\ pos' = np
                /\ strats' = WrittenAll(strats, detached, rpool', call'.writes, 1)
                /\ UNCHANGED block
        /\ UNCHANGED <<cfg, stage, got, conn>>

EnrichInit ==
    /\ cfg \in Processings
    /\ rpool = <<>>
    /\ pipe_list = <<>>
    /\ rtable = <<>>
    /\ strats = <<>>
    /\ raised = "none"
    /\ pc = "scan"
    /\ stage = 0
    /\ block = NoBlock
    /\ pos = <<1, 1, 1>>
    /\ call = NoCall
    /\ before = <<>>
    /\ last_set = NoCall
    /\ again = FALSE
    /\ got = NoGot
    /\ connected = NoBlock
    /\ entry = NoEntryPool
    /\ invoked = <<>>
    /\ log = <<>>
    /\ detached = {}

EnrichNext ==
    \/ Scan
    \/ Templates
    \/ SwitchedOff
    \/ Derive
    \/ CommitOutput
    \/ Project
    \/ PostProcess

SpecEnrich == EnrichInit /\ [][EnrichNext]_vars

-----------------------------------------------------------------------------
(* What the properties below speak of *)

\* the lineage a call c of set_data stores the record under
NewProv(c) ==
    IF c.inject THEN GivenProv(c.json_info)
    ELSE List(Append(GivenProv(c.json_info).items, Entry(c.resource, c.node_name)))

\* the current (pre-append) lineage key of a call c of set_data
CurrentKey(c) == PyStr(GivenProv(c.json_info))

\* the number of records of resource in the pool rp
NumKeys(rp, resource) == IF Has(rp, resource) THEN Len(rp[resource]) ELSE 0

\* the last operation was a call of set_data for a resource that had a
\* record at the current lineage key of the call, a lineage of that resource
Rewrites ==
    /\ call.op = "set_data"
    /\ CurrentKey(call) \in Keys(before, call.resource)
    /\ get_resource_from_prov(GivenProv(call.json_info)) = call.resource

\* the declared inputs of the last call of get_strats that are in the pool
\* it was called on, as the names fetched, and those that are not
RECURSIVE PresentFrom(_, _)
PresentFrom(resources, i) ==
    IF i > Len(resources) THEN <<>>
    ELSE LET names == resources[i].names
             here == IF resources[i].kind = "linked"
                     THEN SelectSeq(names, LAMBDA n : Has(before, n))
                     ELSE IF \E j \in DOMAIN names : Has(before, names[j])
                          THEN <<names[CHOOSE j \in DOMAIN names :
                                          /\ Has(before, names[j])
                                          /\ \A k \in 1..(j - 1) : ~Has(before, names[k])]>>
                          ELSE <<>>
         IN  here \o PresentFrom(resources, i + 1)

Present(resources) == PresentFrom(resources, 1)

NoLinked(resources) == \A i \in DOMAIN resources : resources[i].kind # "linked"

AllNames(resources) == UNION {Range(resources[i].names) : i \in DOMAIN resources}

RECURSIVE Times(_, _)
Times(ns, i) == IF i > Len(ns) THEN 1 ELSE ns[i] * Times(ns, i + 1)

\* the fork tags a record carries: every element of every list of its
\* CpacVariant
Carried(json) ==
    IF Has(json, "CpacVariant")
    THEN UNION {Range(json["CpacVariant"][key]) : key \in DOMAIN json["CpacVariant"]}
    ELSE {}

\* the fork tags the registry of a resource shows as available: those
\* carried by any of its lineages
Available(rp, resource) == UNION {Carried(rp[resource][i].json) : i \in DOMAIN rp[resource]}

\* the last call of get_strats was given the linked pair (x, y), both in the
\* pool, and returned
LinkedPair(x, y) ==
    /\ call.op = "get_strats"
    /\ call.resources = <<Linked(<<x, y>>)>>
    /\ Has(before, x) /\ Has(before, y)
    /\ raised = "none"

\* resource has two lineages in the pool rp: one the transform M was applied
\* to (it carries the fork tag M and nothing else), one it was not applied
\* to (it carries no fork tag)
AppliedOrNot(rp, resource) ==
    /\ Has(rp, resource)
    /\ Len(rp[resource]) = 2
    /\ \E i, j \in DOMAIN rp[resource] :
          /\ Carried(rp[resource][i].json) = {"M"}
          /\ Carried(rp[resource][j].json) = {}

\* the lineage of resource in rp the transform was applied to (or not)
Lineage(rp, resource, applied) ==
    LET i == CHOOSE j \in DOMAIN rp[resource] :
                (Carried(rp[resource][j].json) = {"M"}) = applied
    IN  rp[resource][i].json["CpacProvenance"]

-----------------------------------------------------------------------------
(* Properties *)

\* C1 (as stated): a call of set_data with fork=False for a resource R that
\* has a record at the current (pre-append) lineage key deletes that record,
\* and the number of lineage keys of R is the same after the call as before.
C1_SameNumberOfKeys ==
    (Rewrites /\ ~call.fork) =>
        /\ (CurrentKey(call) \notin Keys(rpool, call.resource) \/ call.inject)
        /\ NumKeys(rpool, call.resource) = NumKeys(before, call.resource)

\* C1 (amended): a call of set_data with fork=False for a resource R that
\* has a record at the current (pre-append) lineage key leaves R with the
\* keys it had, less the current key, plus the resulting key; so the number
\* of lineage keys of R never grows, and it is one less than before when the
\* resulting key was already another key of R.
C1_OldKeyReplaced ==
    (Rewrites /\ ~call.fork) =>
        /\ Keys(rpool, call.resource) =
              (Keys(before, call.resource) \ {CurrentKey(call)})
                  \cup {PyStr(NewProv(call))}
        /\ NumKeys(rpool, call.resource) =
              IF PyStr(NewProv(call)) \in Keys(before, call.resource) \ {CurrentKey(call)}
              THEN NumKeys(before, call.resource) - 1
              ELSE NumKeys(before, call.resource)

\* a non-forking call replaced the record at the current key by one at a
\* key that is new
C1_Witness ==
    /\ Rewrites /\ ~call.fork /\ ~call.inject /\ raised = "none"
    /\ CurrentKey(call) \notin Keys(rpool, call.resource)
    /\ PyStr(NewProv(call)) \notin Keys(before, call.resource)
    /\ NumKeys(before, call.resource) >= 2

\* C2: after a call of set_data with fork=True for a resource R that had a
\* record at the current (pre-append) lineage key, that record is still in
\* the pool, unchanged, and there is a record at the new lineage key, which
\* is another key.
C2_ForkKeepsPrior ==
    (Rewrites /\ call.fork) =>
        /\ CurrentKey(call) \in Keys(rpool, call.resource)
        /\ At(rpool[call.resource], CurrentKey(call))
              = At(before[call.resource], CurrentKey(call))
        /\ PyStr(NewProv(call)) \in Keys(rpool, call.resource)
        /\ PyStr(NewProv(call)) # CurrentKey(call)

C2_Witness ==
    /\ Rewrites /\ call.fork /\ raised = "none"
    /\ NumKeys(rpool, call.resource) = NumKeys(before, call.resource) + 1

\* C3: when set_data is called twice with fork=False for the same resource
\* R, the same ancestor lineage and the same node name, R has exactly one
\* record at the resulting lineage key after the second call, and no more
\* lineage keys than before it.
C3_Idempotent ==
    (call.op = "set_data" /\ again /\ ~call.fork) =>
        /\ Cardinality({i \in DOMAIN rpool[call.resource] :
                           rpool[call.resource][i].idx = PyStr(NewProv(call))}) = 1
        /\ NumKeys(rpool, call.resource) <= NumKeys(before, call.resource)

C3_Witness ==
    /\ call.op = "set_data" /\ again /\ ~call.fork /\ ~call.inject /\ raised = "none"
    /\ PyStr(NewProv(call)) \in Keys(before, call.resource)
    /\ At(rpool[call.resource], PyStr(NewProv(call))).data = call.data

C5_ProductSize ==
    (/\ call.op = "get_strats"
     /\ NoLinked(call.resources)
     /\ Len(Present(call.resources)) = Len(call.resources)) =>
        /\ raised = "none"
        /\ Len(strats) =
              Times([i \in DOMAIN call.resources |->
                        NumKeys(before, Present(call.resources)[i])], 1)

\* two inputs with two lineage keys or more each
C5_Witness ==
    /\ call.op = "get_strats" /\ raised = "none"
    /\ NoLinked(call.resources)
    /\ Len(call.resources) = 2
    /\ Len(Present(call.resources)) = 2
    /\ \A i \in 1..2 : NumKeys(before, Present(call.resources)[i]) >= 2
    /\ Len(strats) >= 4

\* C6: for a linked pair of inputs, no sub-pool get_strats returns combines
\* a lineage A that carries a fork tag T (anywhere in the lists of its
\* CpacVariant) with a lineage B of the other input that does not carry T
\* although T is available in the registry of that input.
C6_ConflictPruned ==
    \A x, y \in Resources :
       LinkedPair(x, y) =>
          \A s \in DOMAIN strats :
             \A a, b \in {x, y} :
                a # b =>
                   \A T \in Carried(strats[s].recs[a].json) :
                      ~(T \in Available(before, b) /\ T \notin Carried(strats[s].recs[b].json))

\* C7: when each of two resources has a lineage the transform M was applied
\* to and one it was not, get_strats for the linked pair of them returns
\* exactly two sub-pools: (applied, applied) and (not applied, not applied).
C7_AgreeingPairsOnly ==
    \A x, y \in Resources :
       (/\ call.op = "get_strats"
        /\ call.resources = <<Linked(<<x, y>>)>>
        /\ AppliedOrNot(before, x) /\ AppliedOrNot(before, y)) =>
           /\ raised = "none"
           /\ Len(strats) = 2
           /\ Idxs(strats) =
                 {PyStr(List(<<Lineage(before, x, TRUE), Lineage(before, y, TRUE)>>)),
                  PyStr(List(<<Lineage(before, x, FALSE), Lineage(before, y, FALSE)>>))}

C7_Witness ==
    /\ LinkedPair("bold", "desc-preproc_bold")
    /\ AppliedOrNot(before, "bold") /\ AppliedOrNot(before, "desc-preproc_bold")
    /\ Len(strats) = 2

\* C8: when get_strats is given two inputs, one not in the pool and one in
\* the pool with n lineage keys, it raises nothing and returns n sub-pools,
\* whose keys are the lineage keys of the input that is in the pool, each
\* holding a record for that input only.
C8_AbsentInput ==
    (/\ call.op = "get_strats"
     /\ NoLinked(call.resources)
     /\ Len(call.resources) = 2
     /\ Len(Present(call.resources)) = 1) =>
        LET present == Present(call.resources)[1]
        IN  /\ raised = "none"
            /\ Len(strats) = NumKeys(before, present)
            /\ IdxSeq(strats) = IdxSeq(before[present])
            /\ \A s \in DOMAIN strats :
                  /\ strats[s].names = <<present>>
                  /\ DOMAIN strats[s].recs = {present}

C8_Witness ==
    /\ call.op = "get_strats" /\ raised = "none"
    /\ call.resources = <<Name("desc-mean_bold"), Name("bold")>>
    /\ ~Has(before, "desc-mean_bold")
    /\ Len(strats) >= 2
    /\ IdxSeq(strats) = IdxSeq(before["bold"])

\* C9: get_strats raises the Exception 'None of the listed resources ...
\* exist' if and only if no declared input (no member of a linked group and
\* no alternative either) is in the pool.
C9_NoneExist ==
    call.op = "get_strats" =>
        ((raised = NoneExist) <=> (\A n \in AllNames(call.resources) : ~Has(before, n)))

C9_Witness ==
    /\ call.op = "get_strats"
    /\ raised = NoneExist
    /\ Len(call.resources[1].names) = 2
    /\ DOMAIN before # {}

\* C10: every sub-pool get_strats returns holds one record for each input
\* that is in the pool and no other, under the name of that input; the
\* record is the one the pool holds under that name at the lineage chosen
\* for the combination; and the key of the sub-pool is the string of the
\* chain of the chosen lineages (of the chosen lineage, for one input).
C10_SubPoolRecords ==
    (call.op = "get_strats" /\ raised = "none") =>
        \A s \in DOMAIN strats :
           LET sp == strats[s]
               present == Present(call.resources)
               prov == sp.json["CpacProvenance"]
               chosen == IF Len(present) > 1 THEN prov.items ELSE <<prov>>
           IN  /\ Range(sp.names) = Range(present)
               /\ Len(sp.names) = Len(present)
               /\ DOMAIN sp.recs = Range(present)
               /\ Len(chosen) = Len(present)
               /\ \A i \in DOMAIN present :
                     /\ PyStr(chosen[i]) \in Keys(rpool, present[i])
                     /\ sp.recs[present[i]] = At(rpool[present[i]], PyStr(chosen[i]))
               /\ sp.idx = PyStr(prov)

C10_Witness ==
    /\ call.op = "get_strats" /\ raised = "none"
    /\ Len(Present(call.resources)) = 2
    /\ Len(strats) >= 3

-----------------------------------------------------------------------------
(* C11: get of a list of names returns the entry of the first name that is *)
(* in the pool; when no requested name is in the pool it raises the        *)
(* LookupError, for one name and for a list alike, unless optional is      *)
(* true, and then it returns None and leaves the pool as it was.           *)

\* the call of get that ran last asked for names none of which was in the
\* pool
NoneInPool == FirstPresent(before, call.resource.names, 1) = None

C11_FirstPresentOrLookupError ==
    call.op = "get" =>
        IF ~NoneInPool
        THEN /\ raised = "none"
             /\ got = Returned(before[FirstPresent(before, call.resource.names, 1)])
        ELSE IF call.optional
        THEN /\ raised = "none"
             /\ got = ReturnedNone
             /\ rpool = before
        ELSE raised = NameNotInPool

-----------------------------------------------------------------------------
(* C12: set_data raises the IndexError of an empty lineage when the        *)
(* metadata carries no CpacProvenance and inject is false.                 *)

\* the call of set_data that ran last was given metadata with no lineage
NoLineageGiven ==
    /\ call.op = "set_data"
    /\ ~Has(call.json_info, "CpacProvenance")

C12_RaisedWithoutInject ==
    (NoLineageGiven /\ ~call.inject) => raised = "IndexError"

(* C12 as amended: set_data raises the IndexError of an empty lineage when *)
(* the metadata carries no CpacProvenance and inject is true; nothing is   *)
(* stored then.                                                            *)
C12_RaisedWhenInjected ==
    (NoLineageGiven /\ call.inject) =>
        /\ raised = "IndexError"
        /\ rpool = before

C12_Witness ==
    /\ NoLineageGiven
    /\ call.inject
    /\ call.resource = "bold"
    /\ raised = "IndexError"

-----------------------------------------------------------------------------
(* C13: connect_block of a node block whose switch has no True does        *)
(* nothing: the body is not called, get_strats is not called, and the      *)
(* records, the lineage keys and the registry of the pool stay as they     *)
(* were, also when no declared input of the block is in the pool.          *)

\* this step is a call of connect_block
Connects == pc = "idle" /\ stage' = stage + 1

C13_SwitchedOffInert ==
    [][(Connects /\ TRUE \notin Range(connected'.switch)) =>
           /\ rpool' = rpool
           /\ pipe_list' = pipe_list
           /\ rtable' = rtable
           /\ call' = call
           /\ invoked' = <<>>
           /\ raised' = raised
           /\ pc' = "idle"]_vars

\* a block whose switch is off has been connected to a pool that has none
\* of its inputs
C13_Witness ==
    /\ connected # NoBlock
    /\ TRUE \notin Range(connected.switch)
    /\ AllNames(connected.inputs) \cap DOMAIN rpool = {}
    /\ invoked = <<>>
    /\ rpool = entry.rpool

-----------------------------------------------------------------------------
(* What C14 to C20 speak of *)

\* the active variant set of a configured block: the declared values the
\* configuration selects, the sub-paths the configuration has set, or the
\* one default variant of a block with no option axis
ActiveVariants(b) ==
    CASE b.axis.option_key = "key" -> Selected(b.axis.option_val, b.selected)
      [] b.axis.option_key = "paths" -> Selected(b.axis.paths, b.selected)
      [] OTHER -> <<None>>

\* the step leaves the pool, the last operation on it and the exception
\* state alone, and calls no body
Inert ==
    /\ rpool' = rpool
    /\ pipe_list' = pipe_list
    /\ rtable' = rtable
    /\ call' = call
    /\ invoked' = <<>>
    /\ raised' = raised
    /\ pc' = "idle"

\* the lineage keys of the sub-pools get_strats gives for the inputs of the
\* connected block in the pool as connect_block found it
EntryStrats == get_strats(entry.rpool, entry.pipe_list, connected.inputs).new_strats

\* the pairs (sub-pool, variant), sub-pool by sub-pool
Pairs(pools, variants) ==
    [k \in 1..(Len(pools) * Len(variants)) |->
        <<pools[((k - 1) \div Len(variants)) + 1].idx,
          variants[((k - 1) % Len(variants)) + 1]>>]

\* the pairs the body has been called with, in the order of the calls
InvokedPairs == [i \in DOMAIN invoked |-> <<invoked[i].strat_pool.idx, invoked[i].opt>>]

\* connect_block has returned from an applicable block
BlockReturned ==
    /\ connected # NoBlock
    /\ TRUE \in Range(connected.switch)
    /\ pc = "idle"
    /\ raised = "none"

-----------------------------------------------------------------------------
(* C14: connect_block of a node block whose active variant set is empty    *)
(* does nothing (the body is not called, the pool stays as it was), for    *)
(* every kind of option axis, also for an axis of several configuration    *)
(* sub-paths none of which is set.                                         *)
C14_NoVariantInert ==
    [][(Connects /\ Len(ActiveVariants(connected')) = 0) => Inert]_vars

-----------------------------------------------------------------------------
(* C15: for a node block whose option_key is a list of configuration paths *)
(* with no option_val, the active variant set is exactly the sub-paths the *)
(* configuration has set, and the body is called once for every pair of a  *)
(* sub-pool and such a variant, with that variant as its option.           *)
C15_OncePerSetPath ==
    (BlockReturned /\ connected.axis.option_key = "paths") =>
        /\ ActiveVariants(connected) = connected.selected
        /\ InvokedPairs = Pairs(EntryStrats, connected.selected)

-----------------------------------------------------------------------------
(* C16: connect_block of an applicable node block with S sub-pools and V   *)
(* active variants calls the body exactly once for each of the S*V pairs   *)
(* of a sub-pool and a variant, and with no other arguments.               *)
C16_OncePerPair ==
    BlockReturned =>
        /\ Len(invoked) = Len(EntryStrats) * Len(ActiveVariants(connected))
        /\ InvokedPairs = Pairs(EntryStrats, ActiveVariants(connected))

\* C16 for the blocks whose option axis is not a list of paths
C16_OncePerPairOfOpts ==
    (BlockReturned /\ connected.axis.option_key # "paths") =>
        /\ Len(invoked) = Len(EntryStrats) * Len(ActiveVariants(connected))
        /\ InvokedPairs = Pairs(EntryStrats, ActiveVariants(connected))

-----------------------------------------------------------------------------
(* C17: the inputs of a node block are combined once, before any call of   *)
(* its body: the records the calls of the body commit neither add          *)
(* sub-pools nor change the inputs that later calls of the body of that    *)
(* block see.                                                              *)

\* the sub-pool of the i-th call of the body, as get_strats combined it in
\* the pool that connect_block found
Combined(i) == EntryStrats[((i - 1) \div Len(connected.opts)) + 1]

C17_CombinedOnce ==
    (connected # NoBlock /\ raised = "none") =>
        \A i \in DOMAIN invoked :
            /\ ((i - 1) \div Len(connected.opts)) + 1 <= Len(EntryStrats)
            /\ invoked[i].strat_pool = Combined(i)

-----------------------------------------------------------------------------
(* C18: when the body raises the IOError of a duplicate node for one pair  *)
(* of a sub-pool and a variant, connect_block skips that pair only:        *)
(* nothing is written to the pool for it, a warning is logged, and the     *)
(* loop goes on to the remaining pairs, which are invoked and committed.   *)

\* this step is a call of the body that comes to outcome
Invokes(outcome) ==
    /\ Len(invoked') = Len(invoked) + 1
    /\ invoked'[Len(invoked')].outcome = outcome

\* the pair after the one at pos, (0, 0) when pos is at the last pair
PairAfter ==
    IF pos[2] < Len(connected.opts) THEN <<pos[1], pos[2] + 1>>
    ELSE IF pos[1] < Len(strats) THEN <<pos[1] + 1, 1>>
    ELSE <<0, 0>>

C18_DuplicateSkipsOnePair ==
    [][Invokes("IOError") =>
           /\ rpool' = rpool
           /\ pipe_list' = pipe_list
           /\ rtable' = rtable
           /\ raised' = "none"
           /\ Len(log') = Len(log) + 1
           /\ log'[Len(log')] \in IOErrors
           /\ IF PairAfter = <<0, 0>>
              THEN pc' = "idle"
              ELSE /\ pc' = "invoke"
                   /\ pos' = <<PairAfter[1], PairAfter[2], 1>>
                   /\ strats' = strats]_vars

\* after the pair that was skipped another pair of the block has been
\* invoked and its output committed
C18_Witness ==
    /\ raised = "none"
    /\ Len(log) = 1
    /\ call.op = "set_data"
    /\ \E i \in DOMAIN invoked :
          /\ i < Len(invoked)
          /\ invoked[i].outcome = "IOError"
          /\ invoked[Len(invoked)].outcome = "outs"
          /\ call.pipe_idx = invoked[Len(invoked)].strat_pool.idx

-----------------------------------------------------------------------------
(* C19: a fatal input or IO condition that the body raises, as opposed to  *)
(* the duplicate node condition, is not swallowed: it propagates and       *)
(* aborts the build, so that no later pair of the block is invoked.        *)

\* this step is a call of the body that raises a fatal condition: an input
\* the body requires is missing, or a file it reads is
RaisesFatal ==
    \/ Invokes("error")
    \/ Invokes("IOError") /\ log' = Append(log, MissingFile)

C19_FatalPropagates ==
    [][RaisesFatal =>
           /\ raised' # "none"
           /\ pos' = pos
           /\ rpool' = rpool]_vars

\* C19 for the conditions that are not IOErrors
C19_OtherErrorsPropagate ==
    [][Invokes("error") =>
           /\ raised' # "none"
           /\ pos' = pos
           /\ rpool' = rpool]_vars

-----------------------------------------------------------------------------
(* C20: every output that connect_block commits while more than one option *)
(* variant of the block is active carries, in CpacVariant under the base   *)
(* name of the output (the name without its desc- tag), a list whose last  *)
(* element is the identifier of the stage that produced it, the node name  *)
(* the record is committed under.                                          *)

\* the record the call of set_data that ran last has stored
Stored == At(rpool[call.resource], PyStr(NewProv(call)))

\* connect_block has just committed an output of the connected block
Committed ==
    /\ call.op = "set_data"
    /\ raised = "none"
    /\ connected # NoBlock
    /\ Len(invoked) > 0
    /\ invoked[Len(invoked)].outcome = "outs"

C20_VariantTagged ==
    (Committed /\ Len(ActiveVariants(connected)) > 1) =>
        /\ Has(Stored.json, "CpacVariant")
        /\ Has(Stored.json["CpacVariant"], get_raw_label(call.resource))
        /\ LET tags == Stored.json["CpacVariant"][get_raw_label(call.resource)]
           IN  /\ Len(tags) > 0
               /\ tags[Len(tags)] = call.node_name
               /\ tags[Len(tags)] = get_last_prov_entry(NewProv(call)).node

\* an output with a desc- tag committed by a block that is not a fork and
\* has both of its options selected
C20_Witness ==
    /\ Committed
    /\ Len(ActiveVariants(connected)) > 1
    /\ ~IsFork(connected)
    /\ call.resource = "desc-preproc_bold"
    /\ call.node_name = OptName("M", "y")
    /\ Stored.json["CpacVariant"]["bold"][Len(Stored.json["CpacVariant"]["bold"])] = "M_y"

-----------------------------------------------------------------------------
(* What C21 to C25 speak of *)

\* the fork tags a json carries under label: CpacVariant[label], or none
TagsUnder(json, label) ==
    IF Has(json, "CpacVariant") /\ Has(json["CpacVariant"], label)
    THEN json["CpacVariant"][label]
    ELSE <<>>

\* the sub-pool the body was called with last
LastPool == invoked[Len(invoked)].strat_pool

\* connect_block has just committed an output of a block function that has
\* exactly one active variant and no False in its switch
CommittedAlone ==
    /\ Committed
    /\ Len(ActiveVariants(connected)) = 1
    /\ ~IsFork(connected)

\* the fork tags of the output under its base name are those its inputs
\* brought: nothing has been appended
NothingAppended ==
    TagsUnder(Stored.json, get_raw_label(call.resource))
        = TagsUnder(LastPool.json, get_raw_label(call.resource))

-----------------------------------------------------------------------------
(* C21 (as stated): an output committed by a block function that has       *)
(* exactly one active variant and whose switch has no False does not get   *)
(* the node name appended to its fork tags, whatever other block functions *)
(* are registered in the same NodeBlock.                                   *)
C21_SingleVariantUntagged == CommittedAlone => NothingAppended

\* C21 (amended): such an output does not get the node name appended to its
\* fork tags when the block functions of the NodeBlock contribute no more
\* than one option in total to all_opts, the list the first loop of
\* connect_block collects over all of them.
C21_AloneUntagged ==
    (CommittedAlone /\ Len(connected.all_opts) <= 1) => NothingAppended

\* an output of such a block function, alone in its NodeBlock, committed on
\* a lineage that an earlier fork had tagged: the tags are as they were
C21_Witness ==
    /\ CommittedAlone
    /\ Len(connected.others) = 0
    /\ Len(connected.all_opts) = 1
    /\ TagsUnder(LastPool.json, get_raw_label(call.resource)) = <<"M">>
    /\ TagsUnder(Stored.json, get_raw_label(call.resource)) = <<"M">>

\* the output that connect_block has just committed has the name of an
\* input of its invocation, which had a record under the lineage key of
\* that input when connect_block was called
RewritesInput ==
    /\ Committed
    /\ CurrentKey(call) \in Keys(entry.rpool, call.resource)

-----------------------------------------------------------------------------
(* C22 (as stated): at commit connect_block calls set_data with fork=True  *)
(* exactly when the invocation is a fork: the switch has both True and     *)
(* False, or more than one variant of the block is active, or more than    *)
(* one option is active in total; so when a block with two or more active  *)
(* variants rewrites a resource under its own name, the lineage key the    *)
(* input had is still in the pool afterwards.                              *)
C22_ForkPassedWhenTagged ==
    /\ Committed =>
          call.fork = (\/ (TRUE \in Range(connected.switch)
                             /\ FALSE \in Range(connected.switch))
                       \/ Len(ActiveVariants(connected)) > 1
                       \/ Len(connected.all_opts) > 1)
    /\ (RewritesInput /\ Len(ActiveVariants(connected)) >= 2) =>
          CurrentKey(call) \in Keys(rpool, call.resource)

\* C22 (amended): at commit connect_block calls set_data with fork=True
\* exactly when the switch has both True and False, whatever the number of
\* active variants and options; so when a block whose switch has both
\* rewrites a resource under its own name, the lineage key the input had is
\* still in the pool afterwards.
C22_ForkPassedWhenSwitchForks ==
    /\ Committed =>
          call.fork = (TRUE \in Range(connected.switch)
                          /\ FALSE \in Range(connected.switch))
    /\ (RewritesInput /\ FALSE \in Range(connected.switch)) =>
          CurrentKey(call) \in Keys(rpool, call.resource)

\* a block whose switch is on and off has rewritten bold: the new lineage is
\* in the pool beside the one it was made from
C22_Witness ==
    /\ RewritesInput
    /\ connected.switch = <<TRUE, FALSE>>
    /\ call.fork
    /\ call.resource = "bold"
    /\ CurrentKey(call) \in Keys(rpool, "bold")
    /\ PyStr(NewProv(call)) \in Keys(rpool, "bold")
    /\ PyStr(NewProv(call)) \notin Keys(entry.rpool, "bold")

\* every fork tag that json carries, under each label, is carried by the
\* json of the output under that label
TagsKept(json, out) ==
    Has(json, "CpacVariant") =>
        \A label \in DOMAIN json["CpacVariant"] :
            Range(json["CpacVariant"][label]) \subseteq Range(TagsUnder(out, label))

-----------------------------------------------------------------------------
(* C23: fork tags accumulate: every fork tag (each label and each node of  *)
(* its list) in the CpacVariant of a lineage that an invocation consumed,  *)
(* the one input or any member of a merged combination of inputs, is also  *)
(* in the CpacVariant of every output connect_block commits for it.        *)
C23_ForkTagsKept ==
    Committed =>
        \A resource \in DOMAIN LastPool.recs :
            TagsKept(LastPool.recs[resource].json, Stored.json)

\* the lineage of the one record of resource in the pool rp
OnlyLineage(rp, resource) == rp[resource][1].json["CpacProvenance"]

\* the body of the connected block has returned outputs whenever called
AllOuts == \A i \in DOMAIN invoked : invoked[i].outcome = "outs"

\* connect_block found a pool that holds the raw bold alone, entered with no
\* ancestry by the ingress node, and was called for a block function, alone
\* in its NodeBlock, that is on, has one variant, reads bold and writes
\* another resource
Scenario1 ==
    /\ connected # NoBlock
    /\ DOMAIN entry.rpool = {"bold"}
    /\ Len(entry.rpool["bold"]) = 1
    /\ OnlyLineage(entry.rpool, "bold") = List(<<Entry("bold", IngressNode)>>)
    /\ connected.inputs = <<Name("bold")>>
    /\ connected.outputs # <<"bold">>
    /\ connected.switch = <<TRUE>>
    /\ ActiveVariants(connected) = <<None>>
    /\ Len(connected.others) = 0
    /\ AllOuts

-----------------------------------------------------------------------------
Scenario2 ==
    /\ connected # NoBlock
    /\ Len(connected.inputs) = 1
    /\ connected.inputs[1].kind = "name"
    /\ DOMAIN entry.rpool = Range(connected.inputs[1].names)
    /\ \A r \in DOMAIN entry.rpool : Len(entry.rpool[r]) = 1
    /\ connected.switch = <<TRUE>>
    /\ connected.axis = KeyAxis(Options)
    /\ connected.selected = Options
    /\ Len(connected.others) = 0
    /\ AllOuts

\* the lineage of the input of scenario 2, as a sequence of entries
InputLineage == OnlyLineage(entry.rpool, connected.inputs[1].names[1]).items

\* the lineage of the output of scenario 2 under the option opt
OutputLineage(opt) ==
    List(Append(InputLineage, Entry(connected.outputs[1], OptName("M", opt))))

-----------------------------------------------------------------------------
(* C25: end-to-end scenario 2. A block M with the declared option values   *)
(* x and y, both selected, run on a pool with one lineage of its input,    *)
(* leaves exactly two lineage keys for its output; the fork tags of each   *)
(* record end with the node it was committed under, and the two lineages   *)
(* are the lineage of the input followed by one last step, output:M_x in   *)
(* one and output:M_y in the other.                                        *)
C25_Scenario2 ==
    /\ (Scenario2 /\ call.op \in {"get_strats", "set_data"}) => raised = "none"
    /\ (Scenario2 /\ BlockReturned) =>
          LET out == connected.outputs[1]
              base == get_raw_label(out)
          IN  /\ Len(rpool[out]) = 2
              /\ Keys(rpool, out) = {PyStr(OutputLineage("x")), PyStr(OutputLineage("y"))}
              /\ \A opt \in {"x", "y"} :
                    LET rec == At(rpool[out], PyStr(OutputLineage(opt)))
                        tags == TagsUnder(rec.json, base)
                    IN  /\ rec.json["CpacProvenance"] = OutputLineage(opt)
                        /\ Len(tags) > 0
                        /\ tags[Len(tags)] = OptName("M", opt)

\* the scenario has run with bold as the input and desc-mean_bold as the
\* output
C25_Witness ==
    /\ Scenario2
    /\ BlockReturned
    /\ connected.outputs = <<"desc-mean_bold">>
    /\ Keys(rpool, "desc-mean_bold") = {"['bold:func_ingress', 'desc-mean_bold:M_x']",
                                        "['bold:func_ingress', 'desc-mean_bold:M_y']"}
    /\ TagsUnder(rpool["desc-mean_bold"][1].json, "bold") = <<"M_x">>
    /\ TagsUnder(rpool["desc-mean_bold"][2].json, "bold") = <<"M_y">>

-----------------------------------------------------------------------------
(* C26: a block function whose docstring lacks one of the required keys    *)
(* (name, config, switch, option_key, option_val, inputs, outputs) fails   *)
(* when its NodeBlock is constructed: the exception of grab_docstring_dct  *)
(* is raised, connect_block does not run for it, and nothing of a resource *)
(* pool is read or written by it.                                          *)

\* this step is NodeBlock(block) for a docstring that lacks a key
Registers == raised = "none" /\ call'.op = "NodeBlock"

C26_MalformedFailsAtConstruction ==
    [][Registers =>
           /\ raised' = MissingDocstringKey
           /\ connected' = connected
           /\ invoked' = invoked
           /\ stage' = stage
           /\ rpool' = rpool
           /\ pipe_list' = pipe_list
           /\ rtable' = rtable
           /\ strats' = strats
           /\ got' = got
           /\ before' = before]_vars

\* a malformed block function has been met after a block was connected and
\* wrote to the pool: its NodeBlock raised and the pool is as that block
\* left it
C26_Witness ==
    /\ call.op = "NodeBlock"
    /\ raised = MissingDocstringKey
    /\ connected # NoBlock
    /\ Len(invoked) > 0
    /\ rpool # entry.rpool

-----------------------------------------------------------------------------
(* C29: no skip is silent: every pair of a sub-pool and a variant of an     *)
(* applicable block that ends without a commit leaves an entry in the log,  *)
(* when the body raises the duplicate node condition and when the body      *)
(* returns no outputs.                                                      *)
C29_EverySkipLogged ==
    connected # NoBlock => Len(log) = Len(Skips)

\* C29 for the pairs whose body raised an IOError
C29_EveryIOErrorLogged ==
    connected # NoBlock =>
        Len(log) = Len(SelectSeq(invoked, LAMBDA i : i.outcome = "IOError"))

-----------------------------------------------------------------------------
(* C30: get_strats only reads the pool it is called on: after a call the   *)
(* lineage keys of every resource, and the data and the json of every      *)
(* record, are what they were before the call.                             *)
C30_GetStratsReadOnly ==
    call.op = "get_strats" => rpool = before

\* C30 for the calls that combine more than one input
C30_MergeReadOnly ==
    (call.op = "get_strats" /\ LenInputs(before, ResourceList(before, call.resources, 1).resource_list) > 1)
        => rpool = before

-----------------------------------------------------------------------------
(* What C27 and C28 speak of *)

\* derivative_xfm or post_process ran last
EnrichmentStep == call.op \in {"derivative_xfm", "post_process"}

\* the call w of set_data would have removed a record of the pool rp had it
\* been made without fork
WouldRemove(rp, w) ==
    /\ Has(rp, w.resource)
    /\ OldIdx(rp[w.resource], w.resource, GivenProv(w.json_info), w.pipe_idx)
           \in Keys(rp, w.resource)

\* C27: every call of set_data that derivative_xfm and post_process make
\* passes fork=True, and after either step every (resource, lineage key)
\* that was in the pool before the step is still in the pool
C27_EnrichmentAdditive ==
    EnrichmentStep =>
        /\ \A i \in DOMAIN call.writes : call.writes[i].call.fork
        /\ \A resource \in DOMAIN before :
              /\ Has(rpool, resource)
              /\ Keys(before, resource) \subseteq Keys(rpool, resource)

\* post_process has smoothed an output whose lineage ends with the smoothed
\* resource itself: without fork the write would have removed the input's
\* record; and derivative_xfm has warped an output with two transforms
C27_Witness ==
    /\ call.op = "post_process"
    /\ raised = "none"
    /\ Len(call.writes) > 0
    /\ WouldRemove(before, call.writes[1].call)
    /\ Has(rpool, SpaceTemplate(SpaceTemplate("reho")))

\* derivative_xfm was called for a derivative it warps, whose lineage has no
\* transform in it, on a pool that has no transform
NoTransform ==
    /\ call.op = "derivative_xfm"
    /\ call.label \in Range(xfm)
    /\ ~FromLineage(call.json_info["CpacProvenance"].items, 1, xfm_label).found
    /\ ~Has(before, xfm_label)

\* C28: when derivative_xfm applies to an output and there is no transform,
\* neither in the lineage of the output nor in the pool, the step raises
\* nothing, leaves the pool as it was, and connect_block goes on to
\* post_process and the other outputs
C28_MissingTransformSkipped ==
    NoTransform => raised = "none" /\ rpool = before /\ pc = "post"

-----------------------------------------------------------------------------
(* The provenance codec on its own: generate_prov_string and
   generate_prov_list applied to the chains that set_data and get_strats
   build *)

\* the number of entries of a chain in a codec run
MaxChain == 3

CodecEntries ==
    {Entry("bold", IngressNode), Entry("bold", "M"), Entry("desc-mean_bold", "M_x")}

\* the chain in hand and a second one, the key of the first and the chain
\* read back from the key
Codec(op, prov, other, key, back) ==
    [op |-> op, prov |-> prov, other |-> other, key |-> key, back |-> back]

NoKey == [resource |-> None, idx |-> None, raised |-> "none"]

CodecIdle ==
    UNCHANGED <<rpool, pipe_list, rtable, strats, raised, pc, stage, block, pos,
                before, last_set, again, got, connected, entry, invoked, log,
                detached, cfg>>

\* new_prov_list.append(f'{resource}:{node_name}') on either chain
Produced ==
    /\ pc = "codec"
    /\ \E e \in CodecEntries, first \in BOOLEAN :
          LET c == IF first THEN call.prov ELSE call.other
              n == List(Append(c.items, e))
          IN  /\ Len(flatten_prov(c)) < MaxChain
              /\ call' = IF first
                         THEN Codec("append", n, call.other, NoKey, NoEntry)
                         ELSE Codec("append", call.prov, n, NoKey, NoEntry)
    /\ CodecIdle

\* the chain of a merge: the list of the chains of the inputs
MergedChains ==
    /\ pc = "codec"
    /\ Len(call.prov.items) > 0 /\ Len(call.other.items) > 0
    /\ Len(flatten_prov(call.prov)) + Len(flatten_prov(call.other)) <= MaxChain
    /\ call' = Codec("merge", List(<<call.prov, call.other>>), call.other,
                     NoKey, NoEntry)
    /\ CodecIdle

GenerateProvString ==
    /\ pc = "codec"
    /\ call.op \in {"append", "merge"}
    /\ call' = Codec("generate_prov_string", call.prov, call.other,
                     generate_prov_string(call.prov), NoEntry)
    /\ CodecIdle

GenerateProvList ==
    /\ pc = "codec"
    /\ call.op = "generate_prov_string"
    /\ call.key.raised = "none"
    /\ call' = Codec("generate_prov_list", call.prov, call.other, call.key,
                     generate_prov_list(call.key.idx))
    /\ CodecIdle

CodecInit ==
    /\ cfg = Unprocessed
    /\ rpool = <<>>
    /\ pipe_list = <<>>
    /\ rtable = <<>>
    /\ strats = <<>>
    /\ raised = "none"
    /\ pc = "codec"
    /\ stage = 0
    /\ block = NoBlock
    /\ pos = <<1, 1, 1>>
    /\ call = Codec("merge", List(<<>>), List(<<>>), NoKey, NoEntry)
    /\ before = <<>>
    /\ last_set = NoCall
    /\ again = FALSE
    /\ got = NoGot
    /\ connected = NoBlock
    /\ entry = NoEntryPool
    /\ invoked = <<>>
    /\ log = <<>>
    /\ detached = {}

CodecNext ==
    \/ Produced
    \/ MergedChains
    \/ GenerateProvString
    \/ GenerateProvList

SpecCodec == CodecInit /\ [][CodecNext]_vars

\* a chain that names a derivation: it has a last step
HasLastStep(prov) == get_last_prov_entry(prov) # NoEntry

\* C31: a chain read back from its lineage key is the chain itself, and two
\* chains have the same lineage key exactly when they are the same chain.
C31_RoundTrip ==
    /\ call.op = "generate_prov_list" => call.back = call.prov
    /\ (pc = "codec" /\ HasLastStep(call.prov) /\ HasLastStep(call.other))
          => ((generate_prov_string(call.prov).idx
                  = generate_prov_string(call.other).idx)
              <=> (call.prov = call.other))

\* a chain with a nested chain and a different second chain were encoded
\* and the first was read back
C31_Witness ==
    /\ call.op = "generate_prov_list"
    /\ \E i \in DOMAIN call.prov.items : IsList(call.prov.items[i])
    /\ IsStr(call.prov.items[Len(call.prov.items)])
    /\ HasLastStep(call.other)
    /\ call.other # call.prov

-----------------------------------------------------------------------------
(* wrap_block: node blocks run inside a parent node block, on the parent's
   own strat_pool *)

\* the dict a key of a sub-pool holds: rpool[name] = {'data': ..., 'json':
\* ...}, with no level of lineage keys, and rpool['json'] = {...}
Slot(key, val) == [idx |-> key, val |-> val]

RecordDict(rec) == <<Slot("data", rec.data), Slot("json", rec.json)>>

\* strat_pool.rpool of a sub-pool that get_strats returned
StratDicts(strat_pool) ==
    [name \in Range(strat_pool.names) \cup {"json"} |->
        IF name \in Range(strat_pool.names)
        THEN RecordDict(strat_pool.recs[name])
        ELSE <<Slot("CpacProvenance", strat_pool.json["CpacProvenance"])>>]

\* the values of an interface: a (node, out) pair for an input, the name
\* the parent gives an output
Connection(node, out) == [k |-> "tuple", node |-> node, out |-> out]

Renamed(name) == [k |-> "str", name |-> name]

\* variant: every input of the interface is looked up under its lineage key
QuickSingle(dct) == TRUE

\* len(self.get(resource)) == 1
SingleKey(dct) == Len(dct) = 1

\* get_data(resource) of a pool whose rpool is rp: the data it returns or
\* the exception it raises
GetData(rp, resource) ==
    IF ~Has(rp, resource) THEN Raised(NameNotInPool)
    ELSE LET dct == rp[resource]
         IN  IF SingleKey(dct) /\ Len(dct) > 0
             THEN IF Has(dct[1], "data") /\ dct[1].data # <<>>
                  THEN Returned(dct[1].data)
                  ELSE Raised(IF Has(dct[1], "data") THEN "KeyError" ELSE "TypeError")
             ELSE IF \E i \in DOMAIN dct : dct[i].idx = "data"
                  THEN Returned(At(dct, "data").val)
                  ELSE Raised("KeyError")

\* the pool of a sub-pool in the course of wrap_block
Wrapping(rp, pl, rt, exception) ==
    [rpool |-> rp, pipe_list |-> pl, rtable |-> rt, raised |-> exception]

\* 'for in_resource, val in interface.items(): if isinstance(val, tuple):
\* strat_pool.set_data(in_resource, val[0], val[1], {}, "", "", fork=True)'
RECURSIVE WrapInputs(_, _, _)
WrapInputs(st, interface, i) ==
    IF i > Len(interface) \/ st.raised # "none" THEN st
    ELSE IF interface[i].val.k = "tuple"
         THEN WrapInputs(set_data(st.rpool, st.pipe_list, st.rtable, interface[i].idx,
                                  <<interface[i].val.node, interface[i].val.out>>,
                                  <<>>, "", "", TRUE, FALSE),
                         interface, i + 1)
         ELSE WrapInputs(st, interface, i + 1)

\* the name an output of a wrapped block is set under
OutName(interface, out) ==
    IF out \in Idxs(interface) /\ At(interface, out).val.k = "str"
    THEN At(interface, out).val.name
    ELSE out

\* 'for out, val in outputs.items(): ... strat_pool.set_data(..., {}, "", "")'
RECURSIVE WrapOutputs(_, _, _, _)
WrapOutputs(st, interface, outputs, i) ==
    IF i > Len(outputs) \/ st.raised # "none" THEN st
    ELSE WrapOutputs(set_data(st.rpool, st.pipe_list, st.rtable,
                              OutName(interface, outputs[i].idx), outputs[i].val,
                              <<>>, "", "", FALSE, FALSE),
                     interface, outputs, i + 1)

\* the node blocks handed to wrap_block: each asks its strat_pool for the
\* data of its input and returns one output
WrappedBlocks ==
    <<[name |-> "bold_mask", input |-> "bold", output |-> BrainMask],
      [name |-> "bold_masking", input |-> "bold", output |-> "desc-mean_bold"]>>

\* the pool of the subject before the parent node block is connected
ParentPool ==
    LET raw == set_data(<<>>, <<>>, <<>>, "bold", <<"func_ingress", "outputspec.rest">>,
                        <<>>, "", IngressNode, FALSE, FALSE)
        prov == SidecarProv("desc-preproc_bold")
    IN  set_data(raw.rpool, raw.pipe_list, raw.rtable, "desc-preproc_bold",
                 <<"gather", "outputspec.data">>, Put(<<>>, "CpacProvenance", prov),
                 "", OptName("desc-preproc_bold", "ingress"), FALSE, TRUE)

\* the declared inputs of the parent node block
ParentInputs ==
    {<<Name("desc-preproc_bold")>>, <<Name("bold")>>,
     <<Name("bold"), Name("desc-preproc_bold")>>}

\* the interfaces of a parent: the input 'bold' of the wrapped blocks is
\* the parent's own node, and the last output is kept under its label or
\* under a name of the parent's
Interfaces ==
    {<<Slot("bold", Connection(node, "out"))>> \o given :
        node \in {"match_epi_fmaps", "prep_fmap"},
        given \in {<<>>, <<Slot("desc-mean_bold", Renamed("reho"))>>,
                   <<Slot("desc-mean_bold", Renamed("desc-preproc_bold"))>>}}

WrapCall(interface, node_blocks, outputs) ==
    [op |-> "wrap_block", interface |-> interface, node_blocks |-> node_blocks,
     outputs |-> outputs]

WrapIdle ==
    UNCHANGED <<strats, block, pos, last_set, again, connected, entry, invoked, log,
                detached, cfg>>

\* one turn of 'for block in node_blocks:' up to the call of the block: the
\* inputs of the interface are set, and the block asks for its input
WrapEnter ==
    /\ pc = "wrap"
    /\ raised = "none"
    /\ stage < Len(call.node_blocks)
    /\ LET st == WrapInputs(Wrapping(rpool, pipe_list, rtable, "none"),
                            call.interface, 1)
           b == call.node_blocks[stage + 1]
       IN  /\ rpool' = st.rpool
           /\ pipe_list' = st.pipe_list
           /\ rtable' = st.rtable
           /\ got' = IF st.raised # "none" THEN NoGot ELSE GetData(rpool', b.input)
           /\ raised' = IF st.raised # "none" THEN st.raised ELSE got'.raised
           /\ pc' = IF raised' = "none" THEN "wrapped" ELSE pc
           /\ call' = WrapCall(call.interface, call.node_blocks,
                               <<Slot(b.output, <<b.name, "outputspec.out">>)>>)
    /\ before' = rpool
    /\ stage' = stage
    /\ WrapIdle

\* the rest of the turn: the outputs of the block are set, sub_num goes up
WrapLeave ==
    /\ pc = "wrapped"
    /\ LET st == WrapOutputs(Wrapping(rpool, pipe_list, rtable, "none"),
                             call.interface, call.outputs, 1)
       IN  /\ rpool' = st.rpool
           /\ pipe_list' = st.pipe_list
           /\ rtable' = st.rtable
           /\ raised' = st.raised
    /\ stage' = IF raised' = "none" THEN stage + 1 ELSE stage
    /\ pc' = IF raised' # "none" THEN pc
             ELSE IF stage' < Len(call.node_blocks) THEN "wrap" ELSE "returned"
    /\ before' = rpool
    /\ UNCHANGED <<call, got>>
    /\ WrapIdle

\* further downstream in the parent node block: node, out =
\* strat_pool.get_data(name) for an output of the wrapped blocks
Downstream ==
    /\ pc = "returned"
    /\ \E i \in DOMAIN call.node_blocks :
          /\ got' = GetData(rpool, OutName(call.interface, call.node_blocks[i].output))
          /\ call' = WrapCall(call.interface, call.node_blocks,
                              <<Slot(call.node_blocks[i].output,
                                     <<call.node_blocks[i].name, "outputspec.out">>)>>)
    /\ raised' = got'.raised
    /\ pc' = "downstream"
    /\ UNCHANGED <<rpool, pipe_list, rtable, stage, before>>
    /\ WrapIdle

\* the parent node block is given one sub-pool of its inputs and calls
\* wrap_block on it
WrapInit ==
    /\ cfg = Unprocessed
    /\ \E inputs \in ParentInputs, interface \in Interfaces, n \in 1..Len(WrappedBlocks) :
          /\ rpool = StratDicts(get_strats(ParentPool.rpool, ParentPool.pipe_list,
                                           inputs).new_strats[1])
          /\ call = WrapCall(interface, SubSeq(WrappedBlocks, 1, n), <<>>)
    /\ pipe_list = <<>>
    /\ rtable = <<>>
    /\ strats = <<>>
    /\ raised = "none"
    /\ pc = "wrap"
    /\ stage = 0
    /\ block = NoBlock
    /\ pos = <<1, 1, 1>>
    /\ before = <<>>
    /\ last_set = NoCall
    /\ again = FALSE
    /\ got = NoGot
    /\ connected = NoBlock
    /\ entry = NoEntryPool
    /\ invoked = <<>>
    /\ log = <<>>
    /\ detached = {}

WrapNext ==
    \/ WrapEnter
    \/ WrapLeave
    \/ Downstream

SpecWrap == WrapInit /\ [][WrapNext]_vars

\* the (node, out) the interface gives the input of the block just called
Given(interface, in_resource) ==
    <<At(interface, in_resource).val.node, At(interface, in_resource).val.out>>

\* C32: once the inputs of the interface are set, the wrapped block gets
\* the (node, out) of the interface as the data of its input, also when the
\* parent's strat_pool held a record of that name; and the parent gets an
\* output the interface renames under its new name.
C32_InterfaceMapping ==
    /\ (pc = "wrapped")
          => got = Returned(Given(call.interface, call.node_blocks[stage + 1].input))
    /\ (pc = "downstream" /\ call.outputs[1].idx \in Idxs(call.interface))
          => got = Returned(call.outputs[1].val)

-----------------------------------------------------------------------------
\* the sub-pool of the invocation whose output was just committed
Consumed == invoked[Len(invoked)].strat_pool

\* the names the input interface of the connected block adds to a sub-pool
AliasNames == Range(ReplacedInputs(connected.input_interface))

\* C33: the Sources of an output connect_block commits are the resource
\* names of the sub-pool of that invocation, without the 'json' slot and
\* without the alias names of the input interface.
C33_SourcesAreInputs ==
    Committed =>
        /\ Has(Stored.json, "Sources")
        /\ Range(Stored.json["Sources"]) = Range(Consumed.names) \ (AliasNames \cup {"json"})
        /\ Len(Stored.json["Sources"]) = Cardinality(Range(Stored.json["Sources"]))

\* an output of a block whose input was replaced through its interface: the
\* sub-pool holds the name of the pool, the interface adds the alias
C33_Witness ==
    /\ Committed
    /\ AliasNames # {}
    /\ AliasNames \cap Range(Consumed.names) = {}
    /\ Range(Stored.json["Sources"]) = {"bold"}

-----------------------------------------------------------------------------
\* every lineage key of the pool and of the sub-pools in hand is in the
\* registry
RegistryComplete ==
    /\ \A r \in DOMAIN rpool : Idxs(rpool[r]) \subseteq Range(pipe_list)
    /\ (pc = "invoke") => Idxs(strats) \subseteq Range(pipe_list)

\* pipe_list.index(pipe_idx)
get_pipe_number(pl, pipe_idx) ==
    CHOOSE i \in DOMAIN pl :
        pl[i] = pipe_idx /\ \A j \in 1..(i - 1) : pl[j] # pipe_idx

\* C34: the registry of lineage keys holds every key of the pool and of the
\* sub-pools get_strats returned, holds each key once, only grows at its
\* end, and the ordinal of a key never changes.
C34_RegistryCompleteOnce ==
    /\ [](RegistryComplete
          /\ \A i, j \in DOMAIN pipe_list : pipe_list[i] = pipe_list[j] => i = j)
    /\ [][/\ Len(pipe_list') >= Len(pipe_list)
          /\ SubSeq(pipe_list', 1, Len(pipe_list)) = pipe_list
          /\ \A k \in Range(pipe_list) :
                get_pipe_number(pipe_list', k) = get_pipe_number(pipe_list, k)]_vars

-----------------------------------------------------------------------------
\* the lineages of the transforms of the pool rp
TransformLineages(rp) ==
    IF Has(rp, xfm_label)
    THEN {PoolTransforms(rp)[i].prov : i \in DOMAIN rp[xfm_label]}
    ELSE {}

\* the call w of set_data stores the projection of the output label whose
\* lineage is prov: under 'space-template_' + label, with the lineage of
\* the output, of one transform, and the projection step
Projection(w, label, prov) ==
    /\ w.resource = SpaceTemplate(label)
    /\ \E t \in TransformLineages(before) :
          NewProv(w).items = prov.items \o t.items \o <<Entry(w.resource, w.node_name)>>

\* C35: every record derivative_xfm writes for an output L is named
\* 'space-template_L' and has the lineage of L, of one transform and the
\* projection step, also when the step takes every transform of the pool
\* because the lineage of L has none.
C35_ProjectionNaming ==
    (call.op = "derivative_xfm" /\ call.label \in Range(xfm)) =>
        \A i \in DOMAIN call.writes :
            Projection(call.writes[i].call, call.label,
                       call.json_info["CpacProvenance"])

-----------------------------------------------------------------------------
\* the writes of the normalization step among the writes of the last call
Normalized ==
    SelectSeq(call.writes,
              LAMBDA w : w.call.node_name \in {"zscore_standardize",
                                               "fisher_zscore_standardize"})

\* the name of the normalized output of label
Zscored(label) ==
    IF HasDesc(label) THEN DescSuffixed(label, "zstd") ELSE "desc-zstd_" \o label

\* post_process was called with z-scoring on, on a pool that has the one
\* mask the step needs
ZscoringOn ==
    /\ call.op = "post_process"
    /\ cfg.run_zscoring
    /\ get_data(before, BrainMask, None, FALSE) = "none"

\* C36: with z-scoring on, post_process normalizes an output exactly when
\* its label is in the z-score or the Fisher-z policy set, and then it
\* raises nothing and writes the record under the label with '-zstd' added
\* to its desc- tag, or with 'desc-zstd' put in front when it has none.
C36_ZscoreByPolicy ==
    ZscoringOn =>
        IF call.label \in to_zstd \cup to_fisherz
        THEN /\ raised = "none"
             /\ Len(Normalized) = 1
             /\ Normalized[1].call.resource = Zscored(call.label)
             /\ Has(rpool, Zscored(call.label))
        ELSE Len(Normalized) = 0

-----------------------------------------------------------------------------
\* the keys of the chains nested in the lineage prov that end in resource
NestedKeys(prov, resource) ==
    {PyStr(prov.items[i]) : i \in {j \in DOMAIN prov.items :
                                      /\ IsList(prov.items[j])
                                      /\ get_last_prov_entry(prov.items[j]) # NoEntry
                                      /\ get_last_prov_entry(prov.items[j]).res = resource}}

\* the keys of the resource of the last call that the call took away
TakenAway == Keys(before, call.resource) \ Keys(rpool, call.resource)

\* C37: one call of set_data with fork=False takes away at most one
\* lineage key, a key of the named resource that is the key of the lineage
\* given or of a chain nested in it that ends in that resource, and leaves
\* the keys and records of every other resource as they were.
C37_NonForkingFrame ==
    (call.op = "set_data" /\ ~call.fork) =>
        /\ Cardinality(TakenAway) <= 1
        /\ TakenAway \subseteq
              {CurrentKey(call)} \cup NestedKeys(GivenProv(call.json_info), call.resource)
        /\ DOMAIN rpool \ {call.resource} = DOMAIN before \ {call.resource}
        /\ \A r \in DOMAIN before : r # call.resource => rpool[r] = before[r]

\* a call without fork for an output made from two inputs took away the
\* key of the nested chain of the input of the same name, while the other
\* input and other lineages of the resource stayed
C37_Witness ==
    /\ call.op = "set_data" /\ ~call.fork /\ raised = "none"
    /\ Cardinality(TakenAway) = 1
    /\ TakenAway \subseteq NestedKeys(GivenProv(call.json_info), call.resource)
    /\ CurrentKey(call) \notin TakenAway
    /\ Cardinality(DOMAIN before) >= 2

-----------------------------------------------------------------------------
\* C38: when a body returns an output whose label is not among the declared
\* outputs of its block, connect_block raises and no output of that call of
\* the body has been written to the pool: the body's call is the last thing
\* that happened.
C38_UndeclaredAtomic ==
    (Len(invoked) > 0 /\ invoked[Len(invoked)].outcome = "undeclared") =>
        /\ raised # "none"
        /\ call.op = "block_function"

-----------------------------------------------------------------------------
\* the records of the pool that have metadata
Records ==
    UNION {{rpool[r][i] : i \in {j \in DOMAIN rpool[r] : DOMAIN rpool[r][j].json # {}}} :
           r \in DOMAIN rpool}

=============================================================================
